---- MODULE Spec2Model ----
(***************************************************************************)
(* Behaviour engine (display.py: Action, Series, Parallel, Move, ...,      *)
(* Sprite), collision resolver (collision.py) and the projectile pass of   *)
(* GameState.update (engine.py) of the Arkanoid clone.                     *)
(*                                                                         *)
(* Per-frame deltas are exact rationals: a delta or a remainder is kept    *)
(* as an integer numerator over the common denominator Den.                *)
(***************************************************************************)
EXTENDS Integers, Sequences, FiniteSets, TLC

VARIABLES ents, scen,          \* behaviour engine: the sprites and their programs
          cin, cout, cshift,  \* collision resolver: input, result, shifted result
          proj, obst,         \* game: projectiles (balls + lasers), group "ball"
          gpc, hitlog,        \* game: place in GameState.update, this frame's hits
          paddle,             \* the Paddle object (engine.py) and what it is asked
          events, timers,     \* utils.events and utils.timers
          calls               \* handler invocations, in order

behVars == <<ents, scen>>
colVars == <<cin, cout, cshift>>
gameVars == <<proj, obst, gpc, hitlog>>
sysVars == <<paddle, events, timers, calls>>
vars == <<ents, scen, cin, cout, cshift, proj, obst, gpc, hitlog,
          paddle, events, timers, calls>>

(***************************************************************************)
(* Bounds                                                                  *)
(***************************************************************************)
Den == 4            \* deltas are multiples of 1/Den
MaxDelta == 6       \* largest |numerator| of a delta component
MaxN == 3           \* largest frame count of a MoveLimited / Delay
MaxFrames == 7      \* frames a sprite is driven for
MaxGap == 2         \* largest gap between the adjusted previous box and the obstacle
MaxVel == 2         \* largest |component| of a sprite's one-frame velocity
MaxGameFrames == 3  \* frames of GameState.update
MaxOffset == 34     \* largest |horizontal offset| of a ball from the paddle centre
MaxCalls == 2       \* set_action calls made from outside Sprite.update
MaxPlayFrames == 7  \* frames of a running GameState / BreakState
MaxMorphFrames == 62 \* frames an alien is driven for
MaxSceneFrames == 3  \* frames of a GameState with its collision passes
MaxModeEvents == 3  \* capsule effects applied to the paddle
MaxModeFrames == 4  \* frames of a GameState whose paddle changes mode
MaxEventCalls == 3  \* calls made to utils.events from outside a handler
MaxTimerCalls == 3  \* calls made to utils.timers from outside a handler
MaxTimerFrames == 3 \* calls of Timers.update
MaxHitCalls == 4    \* calls of Sprite.hit on one sprite
MaxHits == 3        \* largest hits entry of a cfg
MaxOnceCalls == 5   \* calls made to one FireEvent / Callback object
MaxImages == 3      \* largest number of images of an animation
MaxSpeed == 3       \* largest speed (updates per image) of an animation
MaxFollowFrames == 4 \* updates of a scene with a follower
MaxAlarmStarts == 2 \* calls of Timers.start made from outside a handler
MaxAlarmFrames == 5 \* calls of Timers.update after which timers are counted
MaxReachEvents == 2 \* mode events in a history of SpecReach
MaxDriftFrames == 5 \* updates of the Move in a history of SpecDrift
MaxDriftChanges == 2 \* changes of its delta between the updates

Abs(n) == IF n < 0 THEN -n ELSE n

(***************************************************************************)
(* pygame.Rect: integer x, y, w, h                                         *)
(***************************************************************************)
Rect(x, y, w, h) == [x |-> x, y |-> y, w |-> w, h |-> h]
move(r, dx, dy) == [r EXCEPT !.x = @ + dx, !.y = @ + dy]
left(r) == r.x
right(r) == r.x + r.w
top(r) == r.y
bottom(r) == r.y + r.h
centerx(r) == r.x + (r.w \div 2)
centery(r) == r.y + (r.h \div 2)

(***************************************************************************)
(* Behaviours.  Every behaviour object carries its identity in id: Series  *)
(* and Sprite compare the object returned by update with the one they      *)
(* hold ("is not").  NoAction is Python's None.                            *)
(***************************************************************************)
NoAction == [k |-> "None"]
IsNone(b) == b.k = "None"
SameObject(a, b) == ~IsNone(a) /\ ~IsNone(b) /\ a.id = b.id

Move(id, delta) == [k |-> "Move", id |-> id, delta |-> delta, total |-> <<0, 0>>]
MoveLimited(id, delta, frames) ==
    [k |-> "MoveLimited", id |-> id, delta |-> delta, total |-> <<0, 0>>,
     frames |-> frames]
Delay(id, frames) == [k |-> "Delay", id |-> id, frames |-> frames]
Die(id) == [k |-> "Die", id |-> id]
Blink(id, rate) == [k |-> "Blink", id |-> id, rate |-> rate, frames |-> 0]
Series(id, actions) ==
    [k |-> "Series", id |-> id, action |-> Head(actions), actions |-> Tail(actions)]
Parallel(id, actions) == [k |-> "Parallel", id |-> id, actions |-> actions]
\* Follow: target is the name of the followed sprite, last its centre when
\* the Follow was made
Follow(id, target, last) == [k |-> "Follow", id |-> id, target |-> target, last |-> last]
\* PaddleMove: rect is the region; its on_paddlemove is registered by the maker
PaddleMove(id, region) == [k |-> "PaddleMove", id |-> id, rect |-> region, delta |-> 0]
\* Animate: images are the sizes <<w, h>> of the frames of the animation
Animate(id, images, speed, loop) ==
    [k |-> "Animate", id |-> id, images |-> images, speed |-> speed, loop |-> loop,
     frame |-> 0, count |-> 0]
\* AlienDescend: MoveLimited([0, 0.25], 60)
AlienDescend(id) ==
    [k |-> "AlienDescend", id |-> id, delta |-> <<0, Den \div 4>>, total |-> <<0, 0>>,
     frames |-> 60]
\* AlienJuke / AlienCircle: a MoveLimited per leg, legs being the deltas and
\* frame_counts tables; set() has made the first leg
AlienJukeLegs(xdir) ==
    <<[delta |-> <<xdir * (Den \div 4), Den \div 2>>, frames |-> 10],
      [delta |-> <<xdir * (Den \div 2), Den \div 2>>, frames |-> 30],
      [delta |-> <<xdir * (Den \div 2), Den \div 4>>, frames |-> 10],
      [delta |-> <<xdir * (Den \div 4), Den \div 2>>, frames |-> 10]>>
AlienJuke(id, xdir) ==
    [k |-> "AlienJuke", id |-> id, legs |-> AlienJukeLegs(xdir), index |-> 1,
     delta |-> AlienJukeLegs(xdir)[1].delta, total |-> <<0, 0>>,
     frames |-> AlienJukeLegs(xdir)[1].frames]
AlienCircleLegs(xdir) ==
    LET q == Den \div 4
        h == Den \div 2
        deltas == <<<<q, h>>, <<h, h>>, <<h, q>>, <<h, -q>>, <<h, -h>>, <<q, -h>>,
                    <<-q, -h>>, <<-h, -h>>, <<-h, -q>>, <<-h, q>>, <<-h, h>>, <<-q, h>>>>
        frame_counts == <<10, 30, 10, 10, 30, 10, 10, 30, 10, 10, 30, 10>>
    IN  [i \in 1..12 |-> [delta |-> <<xdir * deltas[i][1], deltas[i][2]>>,
                          frames |-> frame_counts[i]]]
AlienCircle(id, xdir) ==
    [k |-> "AlienCircle", id |-> id, legs |-> AlienCircleLegs(xdir), index |-> 1,
     delta |-> AlienCircleLegs(xdir)[1].delta, total |-> <<0, 0>>,
     frames |-> AlienCircleLegs(xdir)[1].frames]

\* Spawn: the clone is made by update; AlienEscape: the behaviour a spawned
\* alien takes after its 96 frames of MoveLimited
Spawn(id) == [k |-> "Spawn", id |-> id]
AlienEscape(id) == [k |-> "AlienEscape", id |-> id, delta |-> <<0, 0>>, total |-> <<0, 0>>]

\* Callback(callback, *args): the callbacks of the program are
\* utils.events.register(eventtype, handler)
Callback(id, eventtype, handler) ==
    [k |-> "Callback", id |-> id, callback |-> "register", eventtype |-> eventtype,
     handler |-> handler]

\* FireEvent(event, **kwargs)
FireEvent(id, event, kwargs) ==
    [k |-> "FireEvent", id |-> id, event |-> event, kwargs |-> kwargs]

\* Action.then / Action.plus: a new two-element Series / Parallel
thenSwapped(id, a, b) == Series(id, <<b, a>>)
then(id, a, b) == Series(id, <<a, b>>)
plus(id, a, b) == Parallel(id, <<a, b>>)

(***************************************************************************)
(* Sprite                                                                  *)
(***************************************************************************)
Sprite(rect, action) ==
    [rect |-> rect, last |-> rect, visible |-> 1, alive |-> TRUE,
     action |-> action, frame |-> 0, log |-> <<>>]

\* history of the calls delivered to behaviour objects, by frame
Called(s, op, b) == [s EXCEPT !.log = Append(@, [f |-> s.frame, op |-> op, id |-> b.id])]

\* Python int() of a rational n/Den: truncation toward zero
ToIntFloor(n) == n \div Den
ToInt(n) == IF n >= 0 THEN n \div Den ELSE -((-n) \div Den)
\* the same for a delta counted in units of 1/den
ToIntOver(n, den) == IF n >= 0 THEN n \div den ELSE -((-n) \div den)

RECURSIVE start(_, _), stop(_, _), update(_, _)
RECURSIVE startAll(_, _), stopAll(_, _), updateAll(_, _)

\* [self.start(sprite)]: the sprite afterwards
start(b, s) ==
    CASE b.k = "Series" ->
            IF ~IsNone(b.action) THEN start(b.action, Called(s, "start", b))
            ELSE Called(s, "start", b)
      [] b.k = "Parallel" -> startAll(b.actions, Called(s, "start", b))
      [] b.k = "Follow" ->
            \* self.sprite = sprite; self.target.subscribe(self.notify)
            [Called(s, "start", b) EXCEPT !.fx =
                Append(@, [op |-> "subscribe", target |-> b.target,
                           callback |-> [sprite |-> s.name, id |-> b.id]])]
      [] OTHER -> Called(s, "start", b)

startAll(actions, s) ==
    IF actions = <<>> THEN s
    ELSE startAll(Tail(actions), start(Head(actions), s))

stop(b, s) ==
    CASE b.k = "Series" ->
            IF ~IsNone(b.action) THEN stop(b.action, Called(s, "stop", b))
            ELSE Called(s, "stop", b)
      [] b.k = "Parallel" -> stopAll(b.actions, Called(s, "stop", b))
      [] b.k = "Follow" ->
            \* self.sprite = None; self.target.unsubscribe(self.notify)
            [Called(s, "stop", b) EXCEPT !.fx =
                Append(@, [op |-> "unsubscribe", target |-> b.target,
                           callback |-> [sprite |-> s.name, id |-> b.id]])]
      [] OTHER -> Called(s, "stop", b)

stopAll(actions, s) ==
    IF actions = <<>> THEN s
    ELSE stopAll(Tail(actions), stop(Head(actions), s))

\* a Move.update that forgets the remainder
MoveStepNoRemainder(b, s) ==
    LET den == IF "den" \in DOMAIN b THEN b.den ELSE Den
        total == <<b.total[1] + b.delta[1], b.total[2] + b.delta[2]>>
        delta == <<ToIntOver(total[1], den), ToIntOver(total[2], den)>>
    IN  [me |-> [b EXCEPT !.total = <<0, 0>>],
         s  |-> [s EXCEPT !.rect = move(@, delta[1], delta[2])]]

\* Move.update: accumulate, move by the integer part, keep the remainder
MoveStep(b, s) ==
    LET den == IF "den" \in DOMAIN b THEN b.den ELSE Den
        total == <<b.total[1] + b.delta[1], b.total[2] + b.delta[2]>>
        delta == IF den = Den THEN <<ToInt(total[1]), ToInt(total[2])>>
                 ELSE <<ToIntOver(total[1], den), ToIntOver(total[2], den)>>
    IN  [me |-> [b EXCEPT !.total = <<total[1] - delta[1] * den,
                                      total[2] - delta[2] * den>>],
         s  |-> [s EXCEPT !.rect = move(@, delta[1], delta[2])]]

\* the result of a call of update: ret is the returned object (NoAction for
\* None), me is the called object as the call left it, s the sprite
Result(ret, me, s) == [ret |-> ret, me |-> me, s |-> s]

MoveUpdate(b, s) ==
    LET m == MoveStep(b, s) IN Result(m.me, m.me, m.s)

MoveLimitedFrames(b) == IF b.frames > 0 THEN b.frames - 1 ELSE b.frames

MoveLimitedUpdateLate(b, s) ==
    LET m  == MoveStep(b, s)
        me == [m.me EXCEPT !.frames = MoveLimitedFrames(b)]
    IN  Result(IF b.frames = 0 THEN NoAction ELSE me, me, m.s)

MoveLimitedUpdate(b, s) ==
    LET m  == MoveStep(b, s)
        me == [m.me EXCEPT !.frames = MoveLimitedFrames(b)]
    IN  Result(IF me.frames = 0 THEN NoAction ELSE me, me, m.s)

DelayUpdate(b, s) ==
    LET me == [b EXCEPT !.frames = @ - 1]
    IN  Result(IF me.frames > 0 THEN me ELSE NoAction, me, s)

DieUpdate(b, s) == Result(NoAction, b, [s EXCEPT !.alive = FALSE])

BlinkUpdate(b, s) ==
    LET frames == b.frames + 1
    IN  IF frames = b.rate
        THEN LET me == [b EXCEPT !.frames = 0]
             IN  Result(me, me, [s EXCEPT !.visible = 1 - @])
        ELSE LET me == [b EXCEPT !.frames = frames]
             IN  Result(me, me, s)

\* pygame.Rect.clamp_ip on one axis: position x of extent w inside [rx, rx + rw)
clampAxis(x, w, rx, rw) ==
    IF w >= rw THEN rx + (rw \div 2) - (w \div 2)
    ELSE IF x < rx THEN rx
    ELSE IF x + w > rx + rw THEN rx + rw - w
    ELSE x
clamp(r, region) ==
    [r EXCEPT !.x = clampAxis(r.x, r.w, region.x, region.w),
              !.y = clampAxis(r.y, r.h, region.y, region.h)]

PaddleMoveUpdate(b, s) ==
    LET me == [b EXCEPT !.delta = 0]
    IN  Result(me, me, [s EXCEPT !.rect = clamp(move(@, b.delta, 0), b.rect)])

FollowUpdate(b, s) == Result(b, b, s)

\* Sprite.set_image(image, "center"): the new size, the centre kept
set_image(s, image) ==
    [s EXCEPT !.rect = [x |-> centerx(s.rect) - (image[1] \div 2),
                        y |-> centery(s.rect) - (image[2] \div 2),
                        w |-> image[1], h |-> image[2]]]

\* an Animate that shows each image for one update more
AnimateUpdateLate(b, s) ==
    LET s1 == IF b.count = 0 THEN set_image(s, b.images[b.frame + 1]) ELSE s
        count == b.count + 1
        stepped == count > b.speed
        frame == IF stepped THEN b.frame + 1 ELSE b.frame
        me == [b EXCEPT !.count = IF stepped THEN 0 ELSE count,
                        !.frame = IF stepped /\ frame >= Len(b.images) /\ b.loop
                                  THEN 0 ELSE frame]
    IN  Result(IF me.frame < Len(b.images) THEN me ELSE NoAction, me, s1)

\* Animate.update
AnimateUpdate(b, s) ==
    LET s1 == IF b.count = 0 THEN set_image(s, b.images[b.frame + 1]) ELSE s
        count == b.count + 1
        stepped == count >= b.speed
        frame == IF stepped THEN b.frame + 1 ELSE b.frame
        me == [b EXCEPT !.count = IF stepped THEN 0 ELSE count,
                        !.frame = IF stepped /\ frame >= Len(b.images) /\ b.loop
                                  THEN 0 ELSE frame]
    IN  Result(IF me.frame < Len(b.images) THEN me ELSE NoAction, me, s1)

\* scene.names["bg"].rect
playspace == Rect(0, 0, 100, 200)

\* random.choice(actions): the sprite's next random draw picks the element
choice(actions, s) == actions[((Head(s.rand) - 1) % Len(actions)) + 1]

\* AlienDescend.update: when the descent is over, a new behaviour is chosen
AlienDescendUpdate(b, s) ==
    LET actions(id, rect) ==
            <<AlienDescend(id)>>
            \o (IF right(rect) < right(playspace) - 32 THEN <<AlienJuke(id, 1)>> ELSE <<>>)
            \o (IF right(rect) < right(playspace) - 40
                THEN <<AlienCircle(id, 1)>> ELSE <<>>)
            \o (IF left(rect) > left(playspace) + 32 THEN <<AlienJuke(id, -1)>> ELSE <<>>)
            \o (IF left(rect) > left(playspace) + 40
                THEN <<AlienCircle(id, -1)>> ELSE <<>>)
        After(r) ==
            IF IsNone(r.ret)
            THEN Result(choice(actions(r.s.nextid, r.s.rect), r.s), r.me,
                        [r.s EXCEPT !.nextid = @ + 1, !.rand = Tail(@)])
            ELSE Result(r.me, r.me, r.s)
    IN  After(MoveLimitedUpdate(b, s))

\* AlienJuke.update: the next leg when one is over, AlienDescend after the last
AlienJukeUpdate(b, s) ==
    LET NextLeg(me, leg) == [me EXCEPT !.index = @ + 1, !.delta = leg.delta,
                                       !.total = <<0, 0>>, !.frames = leg.frames]
        Same(me, sprite) == Result(me, me, sprite)
        After(r) ==
            IF IsNone(r.ret)
            THEN IF r.me.index + 1 <= Len(b.legs)
                 THEN Same(NextLeg(r.me, b.legs[r.me.index + 1]), r.s)
                 ELSE Result(AlienDescend(r.s.nextid), [r.me EXCEPT !.index = @ + 1],
                             [r.s EXCEPT !.nextid = @ + 1])
            ELSE Result(r.me, r.me, r.s)
    IN  After(MoveLimitedUpdate(b, s))

\* Spawn.update: the clone, 8 by 8, is put on top of the spawning sprite and
\* joins the groups; the scene takes it in when the call returns
SpawnUpdate(b, s) ==
    Result(NoAction, b,
           [s EXCEPT !.fx = Append(@, [op |-> "spawn",
                                       rect |-> Rect(centerx(s.rect) - 4, top(s.rect) - 8,
                                                     8, 8)])])

\* FireEvent.update: the event is generated once
FireEventUpdate(b, s) ==
    IF b.event # ""
    THEN Result(NoAction, [b EXCEPT !.event = ""],
                [s EXCEPT !.fx = Append(@, [op |-> "generate", type |-> b.event,
                                            kwargs |-> b.kwargs])])
    ELSE Result(NoAction, b, s)

\* a Callback that keeps its callback
CallbackUpdateKeeping(b, s) ==
    Result(NoAction, b,
           [s EXCEPT !.fx = Append(@, [op |-> "register", eventtype |-> b.eventtype,
                                       handler |-> b.handler])])

\* Callback.update: the callback is called once; utils.events takes the
\* registration when the call returns
CallbackUpdate(b, s) ==
    IF b.callback # ""
    THEN Result(NoAction, [b EXCEPT !.callback = ""],
                [s EXCEPT !.fx = Append(@, [op |-> "register", eventtype |-> b.eventtype,
                                            handler |-> b.handler])])
    ELSE Result(NoAction, b, s)

\* Series.start on the held action (None holds nothing)
SeriesStart(action, s) == IF IsNone(action) THEN s ELSE start(action, s)

SeriesUpdateNoStop(b, s) ==
    LET r  == update(b.action, s)
        s1 == IF SameObject(r.ret, b.action) THEN r.s
              ELSE SeriesStart(r.ret, r.s)
    IN  IF ~IsNone(r.ret)
        THEN LET me == [b EXCEPT !.action = r.ret] IN Result(me, me, s1)
        ELSE IF b.actions # <<>>
        THEN LET me == [b EXCEPT !.action = Head(b.actions), !.actions = Tail(@)]
             IN  Result(me, me, SeriesStart(me.action, s1))
        ELSE Result(NoAction, [b EXCEPT !.action = NoAction], s1)

SeriesUpdate(b, s) ==
    LET r  == update(b.action, s)
        s1 == IF SameObject(r.ret, b.action) THEN r.s
              ELSE SeriesStart(r.ret, stop(r.me, r.s))
    IN  IF ~IsNone(r.ret)
        THEN LET me == [b EXCEPT !.action = r.ret] IN Result(me, me, s1)
        ELSE IF b.actions # <<>>
        THEN LET me == [b EXCEPT !.action = Head(b.actions), !.actions = Tail(@)]
             IN  Result(me, me, SeriesStart(me.action, s1))
        ELSE Result(NoAction, [b EXCEPT !.action = NoAction], s1)

\* [action.update(sprite) for action in actions]
updateAll(actions, s) ==
    IF actions = <<>> THEN [rets |-> <<>>, mes |-> <<>>, s |-> s]
    ELSE LET r    == update(Head(actions), s)
             rest == updateAll(Tail(actions), r.s)
         IN  [rets |-> <<r.ret>> \o rest.rets, mes |-> <<r.me>> \o rest.mes,
              s |-> rest.s]

RECURSIVE stopFinished(_, _, _)
stopFinished(rets, mes, s) ==
    IF rets = <<>> THEN s
    ELSE stopFinished(Tail(rets), Tail(mes),
                      IF IsNone(Head(rets)) THEN stop(Head(mes), s) ELSE s)

ParallelUpdateAny(b, s) ==
    LET u  == updateAll(b.actions, s)
        s1 == stopFinished(u.rets, u.mes, u.s)
        me == [b EXCEPT !.actions = SelectSeq(u.rets, LAMBDA a : ~IsNone(a))]
    IN  Result(IF Len(me.actions) = Len(b.actions) THEN me ELSE NoAction, me, s1)

ParallelUpdate(b, s) ==
    LET u  == updateAll(b.actions, s)
        s1 == stopFinished(u.rets, u.mes, u.s)
        me == [b EXCEPT !.actions = SelectSeq(u.rets, LAMBDA a : ~IsNone(a))]
    IN  Result(IF me.actions # <<>> THEN me ELSE NoAction, me, s1)

update(b, s0) ==
    LET s == Called(s0, "update", b)
    IN  CASE b.k = "Move" -> MoveUpdate(b, s)
          [] b.k = "MoveLimited" -> MoveLimitedUpdate(b, s)
          [] b.k = "Delay" -> DelayUpdate(b, s)
          [] b.k = "Die" -> DieUpdate(b, s)
          [] b.k = "Blink" -> BlinkUpdate(b, s)
          [] b.k = "Series" -> SeriesUpdate(b, s)
          [] b.k = "Parallel" -> ParallelUpdate(b, s)
          [] b.k = "PaddleMove" -> PaddleMoveUpdate(b, s)
          [] b.k = "Follow" -> FollowUpdate(b, s)
          [] b.k = "Animate" -> AnimateUpdate(b, s)
          [] b.k = "AlienDescend" -> AlienDescendUpdate(b, s)
          [] b.k \in {"AlienJuke", "AlienCircle"} -> AlienJukeUpdate(b, s)
          [] b.k = "Spawn" -> SpawnUpdate(b, s)
          [] b.k = "Callback" -> CallbackUpdate(b, s)
          [] b.k = "FireEvent" -> FireEventUpdate(b, s)

\* Sprite.set_action, old being the held action as its last call left it
set_actionRestart(s, old, new) ==
    LET s1 == IF ~IsNone(old) THEN stop(old, s) ELSE s
        s2 == [s1 EXCEPT !.action = new]
    IN  IF ~IsNone(new) THEN start(new, s2) ELSE s2

set_action(s, old, new) ==
    LET s1 == IF ~IsNone(old) /\ ~SameObject(old, new) THEN stop(old, s) ELSE s
        s2 == [s1 EXCEPT !.action = new]
    IN  IF ~IsNone(new) /\ ~SameObject(old, new) THEN start(new, s2) ELSE s2

\* Sprite.update
SpriteUpdate(s0) ==
    LET s == [s0 EXCEPT !.last = s0.rect, !.frame = @ + 1]
    IN  IF IsNone(s.action) THEN s
        ELSE LET After(r) == set_action(r.s, r.me, r.ret)
             IN  After(update(s.action, s))

(***************************************************************************)
(* Behaviour engine: sprites driven one Sprite.update per frame            *)
(***************************************************************************)
Deltas == {<<dx, dy>> : dx \in -MaxDelta..MaxDelta, dy \in -MaxDelta..MaxDelta}

\* the delta given to child id of a composite (a different one per child)
DeltaOf(id) ==
    CASE id = 1 -> <<3, -(Den + 1)>>
      [] id = 2 -> <<-MaxDelta, 2>>
      [] OTHER  -> <<Den, 1>>

Finite(id) ==
    {MoveLimited(id, DeltaOf(id), n) : n \in 1..MaxN}
        \cup {Delay(id, f) : f \in 0..(MaxN - 1)} \cup {Die(id)}
Prims(id) == Finite(id) \cup {Move(id, DeltaOf(id)), Blink(id, 2)}

\* the value of a variable that a specification does not use
Idle == [k |-> "Idle"]

NewSprite == Sprite(Rect(0, 0, 4, 4), NoAction)
Attached(p) == set_action(NewSprite, NoAction, p)

Singles ==
    {<<Move(1, d)>> : d \in Deltas}
        \cup {<<MoveLimited(1, d, n)>> : d \in Deltas, n \in 1..MaxN}
Pairs ==
    {<<then(10, a, b)>> : a \in Prims(1), b \in Prims(2)}
        \cup {<<plus(10, a, b)>> : a \in Prims(1), b \in Prims(2)}
Chains ==
    UNION {{<<then(11, then(10, a, b), c), then(11, a, then(10, b, c)),
              Series(11, <<a, b, c>>)>>,
            <<plus(11, plus(10, a, b), c), plus(11, a, plus(10, b, c)),
              Parallel(11, <<a, b, c>>)>>}
           : a \in Prims(1), b \in Prims(2), c \in Prims(3)}

Init ==
    \E progs \in Singles \cup Pairs \cup Chains :
        /\ scen = [prog |-> progs]
        /\ ents = [i \in 1..Len(progs) |-> Attached(progs[i])]
        /\ cin = Idle /\ cout = Idle /\ cshift = Idle
        /\ proj = <<>> /\ obst = <<>> /\ gpc = Idle /\ hitlog = <<>>
        /\ paddle = Idle /\ events = Idle /\ timers = Idle /\ calls = <<>>

\* one frame: every sprite is updated once
Tick ==
    /\ \A i \in 1..Len(ents) : ents[i].frame < MaxFrames
    /\ ents' = [i \in 1..Len(ents) |-> SpriteUpdate(ents[i])]
    /\ UNCHANGED <<scen, colVars, gameVars, sysVars>>

Next == Tick

Spec == Init /\ [][Next]_vars

(***************************************************************************)
(* Reference runs: a behaviour attached to a sprite on its own and driven  *)
(* until the sprite holds no action (at most MaxFrames + 1 frames)         *)
(***************************************************************************)
RECURSIVE Drive(_, _)
Drive(s, n) ==
    IF IsNone(s.action) \/ n = 0 THEN s ELSE Drive(SpriteUpdate(s), n - 1)
RunAlone(b, s) == Drive(set_action(s, s.action, b), MaxFrames + 1)

Never == MaxFrames + 2
\* the frame in which b, run alone, returns None
FinishAlone(b) ==
    LET r == RunAlone(b, NewSprite) IN IF IsNone(r.action) THEN r.frame ELSE Never
Max(a, b) == IF a >= b THEN a ELSE b

Calls(log, op, id) == SelectSeq(log, LAMBDA c : c.op = op /\ c.id = id)
CallsTo(log, ids) == SelectSeq(log, LAMBDA c : c.id \in ids)

\* q is n/Den rounded toward zero
IsTruncOf(q, n) ==
    /\ q * n >= 0
    /\ Abs(q) * Den <= Abs(n)
    /\ Abs(n) - Abs(q) * Den < Den

C2_MoveLimitedTermination ==
    \A i \in 1..Len(ents) :
        scen.prog[i].k = "MoveLimited" =>
            LET p == scen.prog[i]
                e == ents[i]
                n == p.frames
            IN  /\ e.frame < n =>
                    /\ SameObject(e.action, p)
                    /\ Len(Calls(e.log, "update", p.id)) = e.frame
                    /\ Calls(e.log, "stop", p.id) = <<>>
                /\ e.frame >= n =>
                    /\ IsNone(e.action)
                    /\ Len(Calls(e.log, "update", p.id)) = n
                    /\ Calls(e.log, "stop", p.id) = <<[f |-> n, op |-> "stop", id |-> p.id]>>
                    /\ IsTruncOf(e.rect.x - NewSprite.rect.x, n * p.delta[1])
                    /\ IsTruncOf(e.rect.y - NewSprite.rect.y, n * p.delta[2])

C2_Witness ==
    \E i \in 1..Len(ents) :
        /\ scen.prog[i].k = "MoveLimited"
        /\ scen.prog[i].frames = MaxN
        /\ (MaxN * scen.prog[i].delta[1]) % Den # 0
        /\ ents[i].frame = MaxN
        /\ IsNone(ents[i].action)
        /\ ents[i].rect.x # NewSprite.rect.x

IsPair(p, kind) == p.k = kind /\ Len(scen.prog) = 1

\* C3: a sprite driven through Series([A, B]) until the Series returns None
\* ends with the rectangle, visibility and liveness of a sprite that ran A
\* alone to completion and then B alone to completion; B is started after
\* A's last update and its stop, B is not updated in the frame A finishes,
\* and the Series returns None on frame (frames of A + frames of B).
C3_SeriesEquivalence ==
    \A i \in 1..Len(ents) :
        (scen.prog[i].k = "Series" /\ Len(scen.prog[i].actions) = 1) =>
            LET p  == scen.prog[i]
                e  == ents[i]
                A  == p.action
                B  == p.actions[1]
                ra == RunAlone(A, NewSprite)
                rb == RunAlone(B, ra)
                fin == IsNone(ra.action) /\ IsNone(rb.action)
                done == [f |-> rb.frame, op |-> "stop", id |-> p.id]
            IN  /\ IsNone(e.action) =>
                    /\ fin
                    /\ e.rect = rb.rect
                    /\ e.visible = rb.visible
                    /\ e.alive = rb.alive
                    /\ e.log[Len(e.log)] = done
                /\ (fin /\ e.frame >= rb.frame) => IsNone(e.action)
                /\ \A j \in 1..Len(e.log) :
                     (e.log[j].op = "start" /\ e.log[j].id = B.id) =>
                        /\ IsNone(ra.action)
                        /\ e.log[j].f = ra.frame
                        /\ \E k \in 1..(j - 1) :
                               /\ e.log[k] = [f |-> ra.frame, op |-> "stop", id |-> A.id]
                               /\ \A m \in 1..Len(e.log) :
                                      e.log[m].id = A.id => m <= k
                /\ \A j \in 1..Len(e.log) :
                     (e.log[j].op = "update" /\ e.log[j].id = B.id) =>
                        e.log[j].f > ra.frame

C3_Witness ==
    \E i \in 1..Len(ents) :
        /\ scen.prog[i].k = "Series" /\ Len(scen.prog[i].actions) = 1
        /\ scen.prog[i].action.k = "MoveLimited"
        /\ scen.prog[i].actions[1].k = "MoveLimited"
        /\ scen.prog[i].action.frames = MaxN
        /\ IsNone(ents[i].action)
        /\ ents[i].frame > MaxN + 1
        /\ ents[i].rect.x # NewSprite.rect.x

\* C4: Parallel([A, B]) stays the sprite's action on every frame before
\* max(finish frame of A, finish frame of B) and returns None on exactly
\* that frame; a child is stopped once, in the frame it finishes, and is
\* not updated afterwards.
C4_ParallelFinish ==
    \A i \in 1..Len(ents) :
        (scen.prog[i].k = "Parallel" /\ Len(scen.prog[i].actions) = 2) =>
            LET p  == scen.prog[i]
                e  == ents[i]
                fin == [j \in 1..2 |-> FinishAlone(p.actions[j])]
                fmax == Max(fin[1], fin[2])
            IN  /\ e.frame < fmax => SameObject(e.action, p)
                /\ e.frame >= fmax =>
                    /\ IsNone(e.action)
                    /\ e.log[Len(e.log)] = [f |-> fmax, op |-> "stop", id |-> p.id]
                /\ \A j \in 1..2 :
                     LET c == p.actions[j]
                     IN  /\ e.frame < fin[j] => Calls(e.log, "stop", c.id) = <<>>
                         /\ e.frame >= fin[j] =>
                              /\ Calls(e.log, "stop", c.id)
                                    = <<[f |-> fin[j], op |-> "stop", id |-> c.id]>>
                              /\ Len(Calls(e.log, "update", c.id)) = fin[j]
                         /\ \A m \in 1..Len(e.log) :
                              (e.log[m].op = "update" /\ e.log[m].id = c.id) =>
                                  e.log[m].f <= fin[j]

C4_Witness ==
    \E i \in 1..Len(ents) :
        /\ scen.prog[i].k = "Parallel" /\ Len(scen.prog[i].actions) = 2
        /\ FinishAlone(scen.prog[i].actions[1]) = 1
        /\ FinishAlone(scen.prog[i].actions[2]) = MaxN
        /\ IsNone(ents[i].action)
        /\ ents[i].frame = MaxN

\* C5 (as stated): the three forms of a chain deliver the same sequence of
\* start, update and stop calls to a, b and c in every frame and finish on
\* the same frame.
C5_SameCallSequence ==
    Len(ents) = 3 =>
        \A i \in 1..2 :
            /\ CallsTo(ents[i].log, {1, 2, 3}) = CallsTo(ents[3].log, {1, 2, 3})
            /\ IsNone(ents[i].action) <=> IsNone(ents[3].action)

\* C5 (amended): the three forms deliver to each of a, b and c the same
\* per-frame sequence of start, update and stop calls and finish on the
\* same frame; the then forms also order the calls to different children
\* identically (the plus forms order one child's stop against another
\* child's update or stop differently).
C5_SameCallsPerChild ==
    Len(ents) = 3 =>
        \A i \in 1..2 :
            /\ \A id \in {1, 2, 3} :
                   CallsTo(ents[i].log, {id}) = CallsTo(ents[3].log, {id})
            /\ IsNone(ents[i].action) <=> IsNone(ents[3].action)
            /\ scen.prog[3].k = "Series" =>
                   CallsTo(ents[i].log, {1, 2, 3}) = CallsTo(ents[3].log, {1, 2, 3})

C5_Witness ==
    /\ Len(ents) = 3
    /\ scen.prog[3].k = "Parallel"
    /\ \A i \in 1..3 : IsNone(ents[i].action) /\ ents[i].frame = MaxN
    /\ \A id \in {1, 2, 3} : Calls(ents[3].log, "stop", id) # <<>>
    /\ CallsTo(ents[1].log, {1, 2, 3}) # CallsTo(ents[3].log, {1, 2, 3})

(***************************************************************************)
(* Collision resolver (collision.py).  Slopes are exact rationals          *)
(* <<numerator, denominator>> with a positive denominator.                 *)
(***************************************************************************)
COLLISIONSIDE_NONE == 0
COLLISIONSIDE_TOP == 1
COLLISIONSIDE_BOTTOM == 2
COLLISIONSIDE_LEFT == 4
COLLISIONSIDE_RIGHT == 8

\* (potential & flag) == flag, flag a single bit
HasFlag(potential, flag) == (potential \div flag) % 2 = 1

\* a division that is skipped when the run is zero, the slope counting as 0
QuotientSkipped(rise, run) ==
    IF run = 0 THEN <<0, 1>>
    ELSE IF run > 0 THEN <<rise, run>>
    ELSE <<-rise, -run>>

\* rise / run after a zero run has been replaced by 0.001
Quotient(rise, run) ==
    IF run = 0 THEN <<rise * 1000, 1>>
    ELSE IF run > 0 THEN <<rise, run>>
    ELSE <<-rise, -run>>
Less(a, b) == a[1] * b[2] < b[1] * a[2]

collide_slopes_TopLeftFlipped(potential, vel_rise, vel_run, corner_rise, corner_run) ==
    LET vel_slope    == Quotient(vel_rise, vel_run)
        corner_slope == Quotient(corner_rise, corner_run)
    IN  IF HasFlag(potential, COLLISIONSIDE_TOP)
        THEN IF HasFlag(potential, COLLISIONSIDE_LEFT)
             THEN IF Less(corner_slope, vel_slope)
                  THEN COLLISIONSIDE_TOP ELSE COLLISIONSIDE_LEFT
             ELSE IF HasFlag(potential, COLLISIONSIDE_RIGHT)
             THEN IF Less(corner_slope, vel_slope)
                  THEN COLLISIONSIDE_TOP ELSE COLLISIONSIDE_RIGHT
             ELSE COLLISIONSIDE_NONE
        ELSE IF HasFlag(potential, COLLISIONSIDE_BOTTOM)
        THEN IF HasFlag(potential, COLLISIONSIDE_LEFT)
             THEN IF Less(corner_slope, vel_slope)
                  THEN COLLISIONSIDE_BOTTOM ELSE COLLISIONSIDE_LEFT
             ELSE IF HasFlag(potential, COLLISIONSIDE_RIGHT)
             THEN IF Less(vel_slope, corner_slope)
                  THEN COLLISIONSIDE_BOTTOM ELSE COLLISIONSIDE_RIGHT
             ELSE COLLISIONSIDE_NONE
        ELSE COLLISIONSIDE_NONE

collide_slopes_BottomRightInclusive(potential, vel_rise, vel_run, corner_rise, corner_run) ==
    LET vel_slope    == Quotient(vel_rise, vel_run)
        corner_slope == Quotient(corner_rise, corner_run)
    IN  IF HasFlag(potential, COLLISIONSIDE_TOP)
        THEN IF HasFlag(potential, COLLISIONSIDE_LEFT)
             THEN IF Less(vel_slope, corner_slope)
                  THEN COLLISIONSIDE_TOP ELSE COLLISIONSIDE_LEFT
             ELSE IF HasFlag(potential, COLLISIONSIDE_RIGHT)
             THEN IF Less(corner_slope, vel_slope)
                  THEN COLLISIONSIDE_TOP ELSE COLLISIONSIDE_RIGHT
             ELSE COLLISIONSIDE_NONE
        ELSE IF HasFlag(potential, COLLISIONSIDE_BOTTOM)
        THEN IF HasFlag(potential, COLLISIONSIDE_LEFT)
             THEN IF Less(corner_slope, vel_slope)
                  THEN COLLISIONSIDE_BOTTOM ELSE COLLISIONSIDE_LEFT
             ELSE IF HasFlag(potential, COLLISIONSIDE_RIGHT)
             THEN IF ~Less(corner_slope, vel_slope)
                  THEN COLLISIONSIDE_BOTTOM ELSE COLLISIONSIDE_RIGHT
             ELSE COLLISIONSIDE_NONE
        ELSE COLLISIONSIDE_NONE

collide_slopes(potential, vel_rise, vel_run, corner_rise, corner_run) ==
    LET vel_slope    == Quotient(vel_rise, vel_run)
        corner_slope == Quotient(corner_rise, corner_run)
    IN  IF HasFlag(potential, COLLISIONSIDE_TOP)
        THEN IF HasFlag(potential, COLLISIONSIDE_LEFT)
             THEN IF Less(vel_slope, corner_slope)
                  THEN COLLISIONSIDE_TOP ELSE COLLISIONSIDE_LEFT
             ELSE IF HasFlag(potential, COLLISIONSIDE_RIGHT)
             THEN IF Less(corner_slope, vel_slope)
                  THEN COLLISIONSIDE_TOP ELSE COLLISIONSIDE_RIGHT
             ELSE COLLISIONSIDE_NONE
        ELSE IF HasFlag(potential, COLLISIONSIDE_BOTTOM)
        THEN IF HasFlag(potential, COLLISIONSIDE_LEFT)
             THEN IF Less(corner_slope, vel_slope)
                  THEN COLLISIONSIDE_BOTTOM ELSE COLLISIONSIDE_LEFT
             ELSE IF HasFlag(potential, COLLISIONSIDE_RIGHT)
             THEN IF Less(vel_slope, corner_slope)
                  THEN COLLISIONSIDE_BOTTOM ELSE COLLISIONSIDE_RIGHT
             ELSE COLLISIONSIDE_NONE
        ELSE COLLISIONSIDE_NONE

\* a sprite's one-frame velocity <<run, rise>>, taken between the centres
Velocity(sprite) ==
    <<centerx(sprite.rect) - centerx(sprite.last),
      centery(sprite.rect) - centery(sprite.last)>>

\* sprite1_prev: sprite1.last moved by sprite2's velocity
AdjustedPrevUnmoved(sprite1, sprite2) == sprite1.last
AdjustedPrev(sprite1, sprite2) ==
    move(sprite1.last, Velocity(sprite2)[1], Velocity(sprite2)[2])

EntirelyLeftStrict(prev, rect) == right(prev) < left(rect)
EntirelyLeft(prev, rect) == right(prev) <= left(rect)
EntirelyRight(prev, rect) == left(prev) >= right(rect)
EntirelyAboveByTop(prev, rect) == top(prev) <= top(rect)
EntirelyAbove(prev, rect) == bottom(prev) <= top(rect)
EntirelyBelowStrict(prev, rect) == top(prev) > bottom(rect)
EntirelyBelow(prev, rect) == top(prev) >= bottom(rect)

collision_side_worker(sprite1, sprite2) ==
    LET vel_rise == Velocity(sprite1)[2] - Velocity(sprite2)[2]
        vel_run  == Velocity(sprite1)[1] - Velocity(sprite2)[1]
        sprite1_prev == AdjustedPrev(sprite1, sprite2)
        rect2 == sprite2.rect
    IN  IF EntirelyLeft(sprite1_prev, rect2)
        THEN LET corner_run == left(rect2) - right(sprite1_prev)
             IN  IF EntirelyAbove(sprite1_prev, rect2)
                 THEN collide_slopes(COLLISIONSIDE_LEFT + COLLISIONSIDE_TOP,
                                     vel_rise, vel_run,
                                     top(rect2) - bottom(sprite1_prev), corner_run)
                 ELSE IF EntirelyBelow(sprite1_prev, rect2)
                 THEN collide_slopes(COLLISIONSIDE_LEFT + COLLISIONSIDE_BOTTOM,
                                     vel_rise, vel_run,
                                     bottom(rect2) - top(sprite1_prev), corner_run)
                 ELSE COLLISIONSIDE_LEFT
        ELSE IF EntirelyRight(sprite1_prev, rect2)
        THEN LET corner_run == left(sprite1_prev) - right(rect2)
             IN  IF EntirelyAbove(sprite1_prev, rect2)
                 THEN collide_slopes(COLLISIONSIDE_RIGHT + COLLISIONSIDE_TOP,
                                     vel_rise, vel_run,
                                     bottom(sprite1_prev) - top(rect2), corner_run)
                 ELSE IF EntirelyBelow(sprite1_prev, rect2)
                 THEN collide_slopes(COLLISIONSIDE_RIGHT + COLLISIONSIDE_BOTTOM,
                                     vel_rise, vel_run,
                                     top(sprite1_prev) - bottom(rect2), corner_run)
                 ELSE COLLISIONSIDE_RIGHT
        ELSE IF EntirelyAbove(sprite1_prev, rect2) THEN COLLISIONSIDE_TOP
        ELSE IF EntirelyBelow(sprite1_prev, rect2) THEN COLLISIONSIDE_BOTTOM
        ELSE COLLISIONSIDE_NONE

collision_side(sprite1, sprite2) == collision_side_worker(sprite1, sprite2)

(***************************************************************************)
(* collision_side applied to pairs of sprites drawn from a grid around the *)
(* obstacle, and to the same pair with both previous rectangles displaced  *)
(***************************************************************************)
Box(last, rect) == [last |-> last, rect |-> rect]

\* mover (2 x 2) whose adjusted previous box is at (x, y), obstacle (3 x 2)
\* now at the origin; v1 and v2 are their one-frame velocities
Pair(x, y, v1, v2) ==
    [m |-> Box(Rect(x - v2[1], y - v2[2], 2, 2),
               Rect(x - v2[1] + v1[1], y - v2[2] + v1[2], 2, 2)),
     o |-> Box(Rect(-v2[1], -v2[2], 3, 2), Rect(0, 0, 3, 2))]

ObstacleVelocities == {<<0, 0>>, <<-MaxVel, 0>>, <<1, 1>>}

MovingMover ==
    [m |-> Box(Rect(10, 0, 5, 5), Rect(15, 0, 5, 5)),
     o |-> Box(Rect(20, 0, 5, 5), Rect(20, 0, 5, 5))]
MovingObstacle ==
    [m |-> Box(Rect(15, 0, 5, 5), Rect(15, 0, 5, 5)),
     o |-> Box(Rect(25, 0, 5, 5), Rect(20, 0, 5, 5))]

SpritePairs ==
    {Pair(x, y, <<vx, vy>>, v2) :
        x \in (-2 - MaxGap)..(3 + MaxGap), y \in (-2 - MaxGap)..(2 + MaxGap),
        vx \in -MaxVel..MaxVel, vy \in -MaxVel..MaxVel, v2 \in ObstacleVelocities}
        \cup {MovingMover, MovingObstacle}

Displacements == {<<1, 0>>, <<0, -1>>, <<-2, 3>>}
Displaced(sprite, d) == [sprite EXCEPT !.last = move(@, d[1], d[2])]

InitCollide ==
    /\ cin \in SpritePairs
    /\ cout = Idle /\ cshift = Idle
    /\ ents = <<>> /\ scen = Idle
    /\ proj = <<>> /\ obst = <<>> /\ gpc = Idle /\ hitlog = <<>>
    /\ paddle = Idle /\ events = Idle /\ timers = Idle /\ calls = <<>>

Collide ==
    /\ cin # Idle /\ cout = Idle
    /\ cout' = [k |-> "Side", side |-> collision_side(cin.m, cin.o)]
    /\ UNCHANGED <<cin, cshift, behVars, gameVars, sysVars>>

CollideDisplaced ==
    /\ cout # Idle /\ cshift = Idle
    /\ \E d \in Displacements :
          cshift' = [k |-> "Side", d |-> d,
                     side |-> collision_side(Displaced(cin.m, d), Displaced(cin.o, d))]
    /\ UNCHANGED <<cin, cout, behVars, gameVars, sysVars>>

NextCollide == Collide \/ CollideDisplaced

SpecCollide == InitCollide /\ [][NextCollide]_vars

\* the geometry the claims speak of, taken from the input alone
ObstacleShift == <<centerx(cin.o.rect) - centerx(cin.o.last),
                   centery(cin.o.rect) - centery(cin.o.last)>>
MoverPrev == move(cin.m.last, ObstacleShift[1], ObstacleShift[2])
RelativeVelocity ==
    <<centerx(cin.m.rect) - centerx(cin.m.last) - ObstacleShift[1],
      centery(cin.m.rect) - centery(cin.m.last) - ObstacleShift[2]>>
WasLeft  == MoverPrev.x + MoverPrev.w <= cin.o.rect.x
WasRight == MoverPrev.x >= cin.o.rect.x + cin.o.rect.w
WasAbove == MoverPrev.y + MoverPrev.h <= cin.o.rect.y
WasBelow == MoverPrev.y >= cin.o.rect.y + cin.o.rect.h

\* a/b as a rational with a positive denominator, zero b replaced by 1/1000
Ratio(a, b) == IF b = 0 THEN <<1000 * a, 1>> ELSE IF b < 0 THEN <<-a, -b>> ELSE <<a, b>>
Below(p, q) == p[1] * q[2] < q[1] * p[2]
VelocitySlope == Ratio(RelativeVelocity[2], RelativeVelocity[1])
\* the horizontal and vertical gaps between the facing corners; the run is
\* the non-negative horizontal gap, the rise is taken in the same direction
GapX == IF WasLeft THEN cin.o.rect.x - (MoverPrev.x + MoverPrev.w)
        ELSE MoverPrev.x - (cin.o.rect.x + cin.o.rect.w)
GapY == IF WasAbove THEN cin.o.rect.y - (MoverPrev.y + MoverPrev.h)
        ELSE cin.o.rect.y + cin.o.rect.h - MoverPrev.y
CornerSlope == Ratio(IF WasLeft THEN GapY ELSE -GapY, GapX)

\* C6: displacing the previous rectangles of mover and obstacle by the same
\* vector leaves the reported side unchanged; the mover going
\* [10,0,5,5]->[15,0,5,5] against the fixed obstacle [20,0,5,5] hits Left,
\* and so does the fixed mover [15,0,5,5] against the obstacle going
\* [25,0,5,5]->[20,0,5,5].
C6_ObstacleFrame ==
    /\ cshift # Idle => cshift.side = cout.side
    /\ (cout # Idle /\ cin \in {MovingMover, MovingObstacle}) =>
           cout.side = COLLISIONSIDE_LEFT

C6_Witness ==
    /\ cin = MovingObstacle
    /\ cshift # Idle
    /\ cshift.d = <<-2, 3>>
    /\ cshift.side = COLLISIONSIDE_LEFT

\* C7: when the mover's previous rectangle, moved by the obstacle's
\* one-frame displacement, intersects the obstacle's current rectangle,
\* collision_side returns None for every pair of velocities.
C7_AlreadyOverlapping ==
    (cout # Idle /\ ~WasLeft /\ ~WasRight /\ ~WasAbove /\ ~WasBelow) =>
        cout.side = COLLISIONSIDE_NONE

C7_Witness ==
    /\ cout # Idle
    /\ ~WasLeft /\ ~WasRight /\ ~WasAbove /\ ~WasBelow
    /\ ObstacleShift = <<1, 1>>
    /\ RelativeVelocity = <<MaxVel - 1, -MaxVel - 1>>
    /\ MoverPrev.y < cin.o.rect.y
    /\ cout.side = COLLISIONSIDE_NONE

\* C8: in the corner cases the side is Top+Left: Top if velocity slope <
\* corner slope, else Left; Top+Right: Top if velocity slope > corner
\* slope, else Right; Bottom+Left: Bottom if velocity slope > corner slope,
\* else Left; Bottom+Right: Bottom if velocity slope < corner slope, else
\* Right (a zero run counting as 0.001).
C8_CornerTable ==
    cout # Idle =>
        /\ (WasAbove /\ WasLeft) =>
             cout.side = IF Below(VelocitySlope, CornerSlope)
                         THEN COLLISIONSIDE_TOP ELSE COLLISIONSIDE_LEFT
        /\ (WasAbove /\ WasRight) =>
             cout.side = IF Below(CornerSlope, VelocitySlope)
                         THEN COLLISIONSIDE_TOP ELSE COLLISIONSIDE_RIGHT
        /\ (WasBelow /\ WasLeft) =>
             cout.side = IF Below(CornerSlope, VelocitySlope)
                         THEN COLLISIONSIDE_BOTTOM ELSE COLLISIONSIDE_LEFT
        /\ (WasBelow /\ WasRight) =>
             cout.side = IF Below(VelocitySlope, CornerSlope)
                         THEN COLLISIONSIDE_BOTTOM ELSE COLLISIONSIDE_RIGHT

C8_Witness ==
    /\ cout # Idle
    /\ WasBelow /\ WasRight
    /\ GapX = 1 /\ GapY = -MaxVel
    /\ RelativeVelocity = <<-1, -MaxVel>>
    /\ VelocitySlope = CornerSlope
    /\ cout.side = COLLISIONSIDE_RIGHT

\* C9 (as stated): in the Top+Left corner case a velocity slope steeper
\* than the corner slope gives Top, a flatter one gives Left.
C9_SteeperHitsTop ==
    (cout # Idle /\ WasAbove /\ WasLeft) =>
        /\ Below(CornerSlope, VelocitySlope) => cout.side = COLLISIONSIDE_TOP
        /\ Below(VelocitySlope, CornerSlope) => cout.side = COLLISIONSIDE_LEFT

\* C9 (amended): in the Top+Left corner case a velocity slope flatter than
\* the corner slope gives Top, not Left, and steepening it to or above the
\* corner slope flips the result to Left.
C9_FlatterHitsTop ==
    (cout # Idle /\ WasAbove /\ WasLeft) =>
        /\ Below(VelocitySlope, CornerSlope) => cout.side = COLLISIONSIDE_TOP
        /\ ~Below(VelocitySlope, CornerSlope) => cout.side = COLLISIONSIDE_LEFT

C9_Witness ==
    /\ cout # Idle
    /\ WasAbove /\ WasLeft
    /\ GapX = 1 /\ GapY = 1
    /\ RelativeVelocity = <<1, MaxVel>>
    /\ cout.side = COLLISIONSIDE_LEFT

(***************************************************************************)
(* GameState.update (engine.py): the behaviour phase and the projectile    *)
(* collision pass with its slide-retry loop                                *)
(***************************************************************************)
\* pygame.Rect.colliderect
colliderect(a, b) ==
    /\ left(a) < right(b) /\ right(a) > left(b)
    /\ top(a) < bottom(b) /\ bottom(a) > top(b)

center(r) == <<centerx(r), centery(r)>>

rect_distance(point, rect) ==
    LET delta_x == IF point[1] < left(rect) THEN left(rect) - point[1]
                   ELSE IF right(rect) - 1 < point[1] THEN point[1] - (right(rect) - 1)
                   ELSE 0
        delta_y == IF point[2] < top(rect) THEN top(rect) - point[2]
                   ELSE IF bottom(rect) - 1 < point[2] THEN point[2] - (bottom(rect) - 1)
                   ELSE 0
    IN  delta_x * delta_x + delta_y * delta_y

\* keyfunc of find_closest
keyfuncByCurrent(projectile, sprite) == rect_distance(center(projectile.rect), sprite.rect)
keyfunc(projectile, sprite) == rect_distance(center(projectile.last), sprite.last)

\* min(sprites, key=keyfunc): the first of the smallest; sprites is the list
\* of the indices in obst that spritecollide returned
find_closest(projectile, sprites) ==
    LET first == CHOOSE j \in 1..Len(sprites) :
                    /\ \A m \in 1..Len(sprites) :
                          keyfunc(projectile, obst[sprites[j]])
                              <= keyfunc(projectile, obst[sprites[m]])
                    /\ \A m \in 1..(j - 1) :
                          keyfunc(projectile, obst[sprites[j]])
                              < keyfunc(projectile, obst[sprites[m]])
    IN  sprites[first]

\* a sprite with its cfg["hits"] (0: no such entry)
GameSprite(rect, action, hits) ==
    [rect |-> rect, last |-> rect, visible |-> 1, alive |-> TRUE,
     action |-> action, frame |-> 0, log |-> <<>>, hits |-> hits]

\* pygame Sprite.kill: the sprite leaves every group
kill(s) == [s EXCEPT !.alive = FALSE]

\* Sprite.hit: the hits counter
hit(s) ==
    IF s.hits # 0
    THEN IF s.hits - 1 = 0 THEN kill([s EXCEPT !.hits = 0])
         ELSE [s EXCEPT !.hits = @ - 1]
    ELSE s

\* pygame.sprite.spritecollide(projectile, groups["ball"], False)
RECURSIVE spritecollideFrom(_, _)
spritecollideFrom(projectile, i) ==
    IF i > Len(obst) THEN <<>>
    ELSE (IF obst[i].alive /\ colliderect(projectile.rect, obst[i].rect)
          THEN <<i>> ELSE <<>>) \o spritecollideFrom(projectile, i + 1)
spritecollide(projectile) == spritecollideFrom(projectile, 1)

\* a reflection that negates the component instead of pointing it away
BounceNegated(projectile, closest, side) ==
    LET delta == projectile.action.delta
    IN  IF side \in {COLLISIONSIDE_BOTTOM, COLLISIONSIDE_TOP}
        THEN [projectile EXCEPT !.action.delta = <<delta[1], -delta[2]>>,
                                !.rect.y = IF side = COLLISIONSIDE_BOTTOM
                                           THEN bottom(closest.rect)
                                           ELSE top(closest.rect) - projectile.rect.h]
        ELSE IF side \in {COLLISIONSIDE_RIGHT, COLLISIONSIDE_LEFT}
        THEN [projectile EXCEPT !.action.delta = <<-delta[1], delta[2]>>,
                                !.rect.x = IF side = COLLISIONSIDE_RIGHT
                                           THEN right(closest.rect)
                                           ELSE left(closest.rect) - projectile.rect.w]
        ELSE projectile

\* "Bounce the balls": the projectile after the side has been resolved
Bounce(projectile, closest, side) ==
    LET delta == projectile.action.delta
    IN  IF side = COLLISIONSIDE_BOTTOM
        THEN [projectile EXCEPT !.action.delta = <<delta[1], Abs(delta[2])>>,
                                !.rect.y = bottom(closest.rect)]
        ELSE IF side = COLLISIONSIDE_TOP
        THEN [projectile EXCEPT !.action.delta = <<delta[1], -Abs(delta[2])>>,
                                !.rect.y = top(closest.rect) - projectile.rect.h]
        ELSE IF side = COLLISIONSIDE_RIGHT
        THEN [projectile EXCEPT !.action.delta = <<Abs(delta[1]), delta[2]>>,
                                !.rect.x = right(closest.rect)]
        ELSE IF side = COLLISIONSIDE_LEFT
        THEN [projectile EXCEPT !.action.delta = <<-Abs(delta[1]), delta[2]>>,
                                !.rect.x = left(closest.rect) - projectile.rect.w]
        ELSE projectile

\* isinstance(projectile.action, display.Move)
IsMove(action) == action.k \in {"Move", "MoveLimited"}

\* the scene: two bricks side by side, a wall to their right, a ball coming
\* from below and, optionally, a laser bolt
Brick(x, hits) == GameSprite(Rect(x, 0, 4, 2), NoAction, hits)
Wall == GameSprite(Rect(4, -2, 2, 10), NoAction, 0)
BallVelocities ==
    {<<3 * Den, -Den>>, <<Den, -2 * Den>>, <<-Den, -2 * Den>>,
     <<-2 * Den, -Den>>, <<Den + 2, -(Den + 2)>>, <<1, -(3 * Den)>>}
Balls ==
    {GameSprite(Rect(x, y, 2, 2), Move(1, v), 0) :
        x \in -4..2, y \in 2..3, v \in BallVelocities}
Laser(x) == GameSprite(Rect(x, 4, 1, 3), Move(2, <<0, -4 * Den>>), 1)

InitGame ==
    /\ \E ball \in Balls :
          proj \in {<<ball>>, <<ball, Laser(-1)>>, <<ball, Laser(0)>>}
    /\ \E hitsA \in 1..2, hitsB \in 0..2 :
          obst = <<Brick(-4, hitsA), Brick(0, hitsB), Wall>>
    /\ gpc = [phase |-> "update", frame |-> 0]
    /\ hitlog = <<>>
    /\ ents = <<>> /\ scen = Idle
    /\ cin = Idle /\ cout = Idle /\ cshift = Idle
    /\ paddle = Idle /\ events = Idle /\ timers = Idle /\ calls = <<>>

\* self.scene.groups["all"].update(): every sprite still in the group
UpdateAll ==
    /\ gpc.phase = "update"
    /\ gpc.frame < MaxGameFrames
    /\ proj' = [i \in 1..Len(proj) |->
                  IF proj[i].alive THEN SpriteUpdate(proj[i]) ELSE proj[i]]
    /\ obst' = [i \in 1..Len(obst) |->
                  IF obst[i].alive THEN SpriteUpdate(obst[i]) ELSE obst[i]]
    /\ gpc' = [phase |-> "collide", frame |-> gpc.frame + 1, p |-> 1, attempt |-> 0]
    /\ hitlog' = <<>>
    /\ UNCHANGED <<behVars, colVars, sysVars>>

\* for attempt in range(3): another attempt follows this one
AttemptsLeftOfFour(attempt) == attempt + 1 < 4
AttemptsLeft(attempt) == attempt + 1 < 3

\* the place after the attempt loop of projectile gpc.p has ended; the
\* projectiles looped over are those alive when the pass began
NextProjectile ==
    IF \E q \in (gpc.p + 1)..Len(proj) : proj[q].frame = gpc.frame
    THEN [gpc EXCEPT !.p = CHOOSE q \in (gpc.p + 1)..Len(proj) :
                              /\ proj[q].frame = gpc.frame
                              /\ \A m \in (gpc.p + 1)..(q - 1) : proj[m].frame # gpc.frame,
                     !.attempt = 0]
    ELSE [phase |-> "end", frame |-> gpc.frame]

\* one attempt of the slide-retry loop that finds an overlap
AttemptHit ==
    /\ gpc.phase = "collide"
    /\ LET p == gpc.p
           sprites == spritecollide(proj[p])
       IN  /\ Len(sprites) > 0
           /\ LET c == find_closest(proj[p], sprites)
                  projectile == hit(proj[p])
                  closest == hit(obst[c])
                  bounces == projectile.alive /\ IsMove(projectile.action)
                  side == IF bounces THEN collision_side(projectile, closest)
                          ELSE COLLISIONSIDE_NONE
              IN  /\ proj' = [proj EXCEPT ![p] =
                                 IF bounces THEN Bounce(projectile, closest, side)
                                 ELSE projectile]
                  /\ obst' = [obst EXCEPT ![c] = closest]
                  /\ hitlog' = Append(hitlog,
                        [p |-> p, attempt |-> gpc.attempt, closest |-> c,
                         sprites |-> sprites, resolved |-> bounces, side |-> side,
                         alive |-> proj[p].alive,
                         dead |-> {n \in 1..Len(obst) : ~obst[n].alive}])
           /\ gpc' = IF AttemptsLeft(gpc.attempt) THEN [gpc EXCEPT !.attempt = @ + 1]
                     ELSE NextProjectile
    /\ UNCHANGED <<behVars, colVars, sysVars>>

\* an attempt that finds no overlap: break
AttemptBreak ==
    /\ gpc.phase = "collide"
    /\ spritecollide(proj[gpc.p]) = <<>>
    /\ gpc' = NextProjectile
    /\ UNCHANGED <<proj, obst, hitlog, behVars, colVars, sysVars>>

\* the rest of GameState.update; the next frame follows
EndFrame ==
    /\ gpc.phase = "end"
    /\ gpc' = [phase |-> "update", frame |-> gpc.frame]
    /\ UNCHANGED <<proj, obst, hitlog, behVars, colVars, sysVars>>

NextGame == UpdateAll \/ AttemptHit \/ AttemptBreak \/ EndFrame

SpecGame == InitGame /\ [][NextGame]_vars

\* C10: in each slide-retry attempt the obstacle that is hit and resolved
\* has the least rect_distance, from the projectile's previous centre to the
\* obstacle's previous rectangle, of all obstacles overlapping the
\* projectile in that attempt; of two candidates at distances 4 and 9 the
\* one at distance 4 is hit first.
PrevDistance(p, c) == rect_distance(center(proj[p].last), obst[c].last)

C10_ClosestFirst ==
    \A n \in 1..Len(hitlog) :
        LET h == hitlog[n]
        IN  /\ \E j \in 1..Len(h.sprites) : h.sprites[j] = h.closest
            /\ \A j \in 1..Len(h.sprites) :
                   PrevDistance(h.p, h.closest) <= PrevDistance(h.p, h.sprites[j])
            /\ ({PrevDistance(h.p, h.sprites[j]) : j \in 1..Len(h.sprites)} = {4, 9}
                  /\ h.attempt = 0)
                   => PrevDistance(h.p, h.closest) = 4

C10_Witness ==
    /\ Len(hitlog) = 2
    /\ hitlog[1].p = 1 /\ hitlog[1].attempt = 0
    /\ Len(hitlog[1].sprites) = 2
    /\ {PrevDistance(1, hitlog[1].sprites[j]) : j \in 1..2} = {4, 9}
    /\ PrevDistance(1, hitlog[1].closest) = 4
    /\ hitlog[1].resolved
    /\ hitlog[2].p = 1 /\ hitlog[2].attempt = 1
    /\ PrevDistance(1, hitlog[2].closest) = 9

\* C20: an entity that is no longer alive takes part in no collision scan:
\* once a projectile or an obstacle has been killed during a frame's
\* collision pass, no later overlap detection, hit or side resolution of
\* that frame involves it.  (hitlog holds the scans of the frame that found
\* an overlap, with the projectile scanned, the obstacles found and the
\* obstacle hit.)
C20_DeadExcluded ==
    \A n \in 1..Len(hitlog) :
        /\ hitlog[n].alive
        /\ \A j \in 1..Len(hitlog[n].sprites) : hitlog[n].sprites[j] \notin hitlog[n].dead
        /\ hitlog[n].closest \notin hitlog[n].dead

(***************************************************************************)
(* Paddle.hit_ball (engine.py): the rebound table                          *)
(***************************************************************************)
\* a Move whose delta is counted in units of 1/den
MoveOver(id, delta, den) ==
    [k |-> "Move", id |-> id, delta |-> delta, total |-> <<0, 0>>, den |-> den]

\* the velocity chosen by hit_ball, in hundredths: the table is in tenths and
\* ball_speed is in tenths.  half_width = width / 2 is a true division, so
\* the thresholds are compared doubled: 2 * sharp_thresh = width - 6,
\* 2 * mid_thresh = width - 16
hit_ball_velSharpInclusive(ball, sprite, ball_speed) ==
    LET delta == <<centerx(ball.rect) - centerx(sprite.rect),
                   centery(ball.rect) - centery(sprite.rect)>>
        sharp_thresh2 == sprite.rect.w - 6
        mid_thresh2 == sprite.rect.w - 16
        vel == IF 2 * delta[1] <= -sharp_thresh2
               THEN (IF delta[2] > 0 THEN <<-20, 10>> ELSE <<-20, -10>>)
               ELSE IF 2 * delta[1] < -mid_thresh2 THEN <<-16, -16>>
               ELSE IF delta[1] < 0 THEN <<-10, -20>>
               ELSE IF 2 * delta[1] <= mid_thresh2 THEN <<10, -20>>
               ELSE IF 2 * delta[1] < sharp_thresh2 THEN <<16, -16>>
               ELSE (IF delta[2] > 0 THEN <<20, 10>> ELSE <<20, -10>>)
    IN  <<vel[1] * ball_speed, vel[2] * ball_speed>>

hit_ball_vel(ball, sprite, ball_speed) ==
    LET delta == <<centerx(ball.rect) - centerx(sprite.rect),
                   centery(ball.rect) - centery(sprite.rect)>>
        sharp_thresh2 == sprite.rect.w - 6
        mid_thresh2 == sprite.rect.w - 16
        vel == IF 2 * delta[1] < -sharp_thresh2
               THEN (IF delta[2] > 0 THEN <<-20, 10>> ELSE <<-20, -10>>)
               ELSE IF 2 * delta[1] < -mid_thresh2 THEN <<-16, -16>>
               ELSE IF delta[1] < 0 THEN <<-10, -20>>
               ELSE IF 2 * delta[1] <= mid_thresh2 THEN <<10, -20>>
               ELSE IF 2 * delta[1] <= sharp_thresh2 THEN <<16, -16>>
               ELSE (IF delta[2] > 0 THEN <<20, 10>> ELSE <<20, -10>>)
    IN  <<vel[1] * ball_speed, vel[2] * ball_speed>>

\* a sprite of a scene: name is its place in the scene, callbacks the
\* subscribed Follow.notify methods, fx the subscriptions its behaviours
\* asked for and not yet made, rand its coming random draws, nextid the
\* identity of the next behaviour object made for it (identities are
\* distinct over the whole scene: those of sprite n begin at 100 * n + 1)
Entity(name, rect, rand) ==
    [rect |-> rect, last |-> rect, visible |-> 1, alive |-> TRUE,
     action |-> NoAction, frame |-> 0, log |-> <<>>,
     name |-> name, callbacks |-> {}, fx |-> <<>>, rand |-> rand,
     nextid |-> 100 * name + 1]

\* the sprite after a behaviour object has been made for it
Made(s) == [s EXCEPT !.nextid = @ + 1]

\* Paddle.hit_ball: the ball afterwards
hit_ball(ball, sprite, ball_speed) ==
    set_action(Made(ball), ball.action,
               MoveOver(ball.nextid, hit_ball_vel(ball, sprite, ball_speed), 100))

PaddleWidths == {64, 33}
BallSpeeds == {10, 11}

\* a ball with a Move attached, its centre dx to the right of the paddle's
BallAt(sprite, dx, y) ==
    LET ball == Entity(2, Rect(centerx(sprite.rect) + dx - 3, y, 6, 6), <<>>)
    IN  set_action(Made(ball), NoAction, Move(ball.nextid, <<0, Den>>))

InitHitBall ==
    /\ \E w \in PaddleWidths, s \in BallSpeeds :
          paddle = [sprite |-> Entity(1, Rect(100, 200, w, 8), <<>>),
                    ball_speed |-> s]
    /\ \E dx \in -MaxOffset..MaxOffset, y \in {190, 203} :
          proj = <<BallAt(paddle.sprite, dx, y)>>
    /\ obst = <<>> /\ gpc = Idle /\ hitlog = <<>>
    /\ ents = <<>> /\ scen = Idle
    /\ cin = Idle /\ cout = Idle /\ cshift = Idle
    /\ events = Idle /\ timers = Idle /\ calls = <<>>

HitBall ==
    /\ calls = <<>>
    /\ proj' = <<hit_ball(proj[1], paddle.sprite, paddle.ball_speed)>>
    /\ calls' = <<"hit_ball">>
    /\ UNCHANGED <<paddle, obst, gpc, hitlog, behVars, colVars, events, timers>>

NextHitBall == HitBall

SpecHitBall == InitHitBall /\ [][NextHitBall]_vars

\* the ball's horizontal centre offset and the paddle's doubled half-width
Offset == centerx(proj[1].rect) - centerx(paddle.sprite.rect)
Rebound == proj[1].action.delta
WasHit == calls = <<"hit_ball">>
Sharp == Abs(Rebound[1]) = 20 * paddle.ball_speed /\ Abs(Rebound[2]) = 10 * paddle.ball_speed
Mid == Abs(Rebound[1]) = 16 * paddle.ball_speed /\ Rebound[2] = -16 * paddle.ball_speed

\* C11 (as claimed): with half-width 32 a ball at offset exactly 29 gets the
\* sharp-edge rebound (horizontal magnitude 2 x ball speed) and a ball at
\* offset 28 the mid rebound (1.6 x ball speed on both axes).
C11_SharpAt29 ==
    (WasHit /\ paddle.sprite.rect.w = 64) =>
        /\ Abs(Offset) = 29 => Sharp
        /\ Abs(Offset) = 28 => Mid

\* C11 (amended): with half-width 32 a ball at offset exactly 29 still gets
\* the mid rebound, as does a ball at offset 28; the sharp-edge rebound starts
\* at offset 30.  In general the rebound is sharp exactly when the offset
\* exceeds half_width - 3, on either side.
C11_SharpAbove29 ==
    WasHit =>
        /\ paddle.sprite.rect.w = 64 =>
              /\ Abs(Offset) \in {28, 29} => Mid
              /\ Abs(Offset) = 30 => Sharp
        /\ Sharp <=> 2 * Abs(Offset) > paddle.sprite.rect.w - 6
        /\ Rebound[1] # 0 /\ (Rebound[1] < 0 <=> Offset < 0)

C11_Witness ==
    /\ WasHit /\ paddle.sprite.rect.w = 64 /\ Offset = 29 /\ Mid
    /\ Len(Calls(proj[1].log, "start", proj[1].action.id)) = 1
    /\ Len(Calls(proj[1].log, "stop", 201)) = 1

(***************************************************************************)
(* A scene of sprites: subscriptions (Sprite.subscribe / notify, Follow),  *)
(* utils.events and utils.timers                                           *)
(***************************************************************************)
\* utils.config["animations"][name]: the sizes of the images, speed, loop
animations(name) ==
    CASE name = "paddle_break" -> [images |-> <<<<16, 4>>, <<12, 4>>>>, speed |-> 2, loop |-> FALSE]
      [] name = "paddle_ext_break" -> [images |-> <<<<24, 4>>, <<16, 4>>>>, speed |-> 2, loop |-> FALSE]
      [] name = "laser_break" -> [images |-> <<<<16, 4>>, <<12, 4>>>>, speed |-> 2, loop |-> FALSE]
      [] name = "explode" -> [images |-> <<<<16, 4>>, <<20, 8>>>>, speed |-> 1, loop |-> FALSE]
      [] name = "paddle_grow" -> [images |-> <<<<20, 4>>, <<24, 4>>>>, speed |-> 1, loop |-> FALSE]
      [] name = "paddle_shrink" -> [images |-> <<<<20, 4>>, <<16, 4>>>>, speed |-> 1, loop |-> FALSE]
      [] name = "paddle_to_laser" -> [images |-> <<<<16, 4>>, <<16, 4>>>>, speed |-> 1, loop |-> FALSE]
      [] name = "laser_to_paddle" -> [images |-> <<<<16, 4>>, <<16, 4>>>>, speed |-> 1, loop |-> FALSE]
      [] name = "alien0" -> [images |-> <<<<8, 8>>, <<8, 8>>>>, speed |-> 2, loop |-> TRUE]
      [] name = "dead" -> [images |-> <<<<8, 8>>, <<8, 8>>>>, speed |-> 1, loop |-> FALSE]
AnimateNamed(id, name) ==
    Animate(id, animations(name).images, animations(name).speed, animations(name).loop)

\* a sprite of a scene with its groups and its cfg; hits 0 and "" stand for
\* entries that cfg does not have
Cfg(hits, paddle_bounce, animation, death_animation) ==
    [hits |-> hits, paddle_bounce |-> paddle_bounce, animation |-> animation,
     hit_animation |-> "", death_animation |-> death_animation]
SceneSprite(name, rect, groups, cfg) ==
    [rect |-> rect, last |-> rect, visible |-> 1, alive |-> TRUE,
     action |-> NoAction, frame |-> 0, log |-> <<>>,
     name |-> name, callbacks |-> {}, fx |-> <<>>, rand |-> <<>>,
     nextid |-> 100 * name + 1, groups |-> groups, cfg |-> cfg]

\* build_alien: the cfg of scene.names["alien"]
AlienCfg == Cfg(1, FALSE, "alien0", "dead")

\* the clone that Spawn.update makes, as sprite name of the scene:
\* MoveLimited([0, 0.25], 96).then(AlienEscape(scene)), plus the animation
SpawnClone(name, rect) ==
    LET clone == SceneSprite(name, rect, {"all", "ball", "paddle", "aliens"}, AlienCfg)
        id == clone.nextid
        action == then(id + 2, MoveLimited(id, <<0, Den \div 4>>, 96), AlienEscape(id + 1))
    IN  set_action([clone EXCEPT !.nextid = id + 5], NoAction,
                   IF clone.cfg.animation # ""
                   THEN plus(id + 4, action, AnimateNamed(id + 3, clone.cfg.animation))
                   ELSE action)

\* what the behaviours of a sprite asked of the scene, done in order:
\* Sprite.subscribe / Sprite.unsubscribe on the target, the clone of a Spawn
\* added to the groups (the registrations of a Callback go to utils.events)
RECURSIVE ApplyFx(_, _)
ApplyFx(w, fx) ==
    IF fx = <<>> THEN w
    ELSE LET e == Head(fx)
         IN  ApplyFx(IF e.op = "spawn" THEN Append(w, SpawnClone(Len(w) + 1, e.rect))
                     ELSE IF e.op \in {"register", "generate"} THEN w
                     ELSE [w EXCEPT ![e.target].callbacks =
                              IF e.op = "subscribe" THEN @ \cup {e.callback}
                              ELSE @ \ {e.callback}],
                     Tail(fx))

\* sprite i of the scene w becomes s, the subscriptions it asked for are made
Settle(w, i, s) == ApplyFx([w EXCEPT ![i] = [s EXCEPT !.fx = <<>>]], s.fx)

\* the behaviour object id in the tree b (NoAction: not there), and the tree
\* with that object replaced
RECURSIVE Find(_, _), FindIn(_, _), Put(_, _, _)
Find(b, id) ==
    IF IsNone(b) THEN NoAction
    ELSE IF b.id = id THEN b
    ELSE IF b.k = "Series" THEN FindIn(<<b.action>> \o b.actions, id)
    ELSE IF b.k = "Parallel" THEN FindIn(b.actions, id)
    ELSE NoAction
FindIn(actions, id) ==
    IF actions = <<>> THEN NoAction
    ELSE IF ~IsNone(Find(Head(actions), id)) THEN Find(Head(actions), id)
    ELSE FindIn(Tail(actions), id)
Put(b, id, new) ==
    IF IsNone(b) THEN b
    ELSE IF b.id = id THEN new
    ELSE IF b.k = "Series"
    THEN [b EXCEPT !.action = Put(@, id, new),
                   !.actions = [n \in 1..Len(@) |-> Put(@[n], id, new)]]
    ELSE IF b.k = "Parallel"
    THEN [b EXCEPT !.actions = [n \in 1..Len(@) |-> Put(@[n], id, new)]]
    ELSE b

\* a notify that moves the follower and keeps the old position of the target
FollowNotifyStale(w, callback, target) ==
    LET j == callback.sprite
        me == Find(w[j].action, callback.id)
        pos == center(target.rect)
    IN  IF pos # me.last
        THEN [w EXCEPT ![j].rect = move(@, pos[1] - me.last[1], pos[2] - me.last[2])]
        ELSE w

\* Follow.notify(target) of the Follow object callback.id, whose sprite is
\* callback.sprite
FollowNotify(w, callback, target) ==
    LET j == callback.sprite
        me == Find(w[j].action, callback.id)
        pos == center(target.rect)
    IN  IF pos # me.last
        THEN [w EXCEPT ![j].rect = move(@, pos[1] - me.last[1], pos[2] - me.last[2]),
                       ![j].action = Put(@, callback.id, [me EXCEPT !.last = pos])]
        ELSE w

\* Sprite.notify: every subscribed callback is called (each moves its own
\* sprite, so the order of the set does not show)
RECURSIVE NotifyAll(_, _, _)
NotifyAll(w, callbacks, i) ==
    IF callbacks = {} THEN w
    ELSE LET c == CHOOSE c \in callbacks : TRUE
         IN  NotifyAll(FollowNotify(w, c, w[i]), callbacks \ {c}, i)

\* Sprite.update of sprite i of the scene
UpdateSprite(w, i) ==
    LET Notify(w1) == NotifyAll(w1, w1[i].callbacks, i)
    IN  Notify(Settle(w, i, SpriteUpdate(w[i])))

\* Group.update: the sprites of the group, taken when the pass begins, in
\* the order of the group
RECURSIVE UpdateGroup(_, _)
UpdateGroup(w, order) ==
    IF order = <<>> THEN w
    ELSE UpdateGroup(UpdateSprite(w, Head(order)), Tail(order))

\* sprite.set_action(new) on sprite i of the scene
SetAction(w, i, new) == Settle(w, i, set_action(w[i], w[i].action, new))

\* utils.events: the registered handlers, as pairs <<event type, handler>>
register(ev, eventtype, handler) == ev \cup {<<eventtype, handler>>}
unregister(ev, eventtype, handler) == ev \ {<<eventtype, handler>>}
handlersOf(ev, eventtype) == {p[2] : p \in {q \in ev : q[1] = eventtype}}

\* utils.timers: the pending timers in the order of the dict, a pair
\* [handler, frames] each; frame_rate is utils.config["frame_rate"]
frame_rate == 2
timerCancel(tm, handler) == SelectSeq(tm, LAMBDA e : e.handler # handler)
\* a start that counts one frame more
timerStartLate(tm, delay, handler) ==
    IF \E n \in 1..Len(tm) : tm[n].handler = handler
    THEN [n \in 1..Len(tm) |->
            IF tm[n].handler = handler
            THEN [handler |-> handler, frames |-> delay * frame_rate + 1] ELSE tm[n]]
    ELSE Append(tm, [handler |-> handler, frames |-> delay * frame_rate + 1])

\* Timers.start(delay, handler), delay being a whole number of seconds
timerStart(tm, delay, handler) ==
    IF \E n \in 1..Len(tm) : tm[n].handler = handler
    THEN [n \in 1..Len(tm) |->
            IF tm[n].handler = handler
            THEN [handler |-> handler, frames |-> delay * frame_rate] ELSE tm[n]]
    ELSE Append(tm, [handler |-> handler, frames |-> delay * frame_rate])

(***************************************************************************)
(* The world of a running state: its sprites, the Paddle object, the       *)
(* registered event handlers and the pending timers.  A handler is         *)
(* [obj, m, id]: the method m of object obj (id tells PaddleMove objects   *)
(* apart)                                                                  *)
(***************************************************************************)
World(e, p, ev, tm) == [ents |-> e, paddle |-> p, events |-> ev, timers |-> tm]

\* the world W becomes the next state
Becomes(W) ==
    /\ ents' = W.ents /\ paddle' = W.paddle
    /\ events' = W.events /\ timers' = W.timers

Handler(obj, m, id) == [obj |-> obj, m |-> m, id |-> id]
release_ballHandler == Handler("Paddle", "release_ball", 0)
on_paddlemoveHandler(id) == Handler("PaddleMove", "on_paddlemove", id)

\* the place of the paddle sprite in the scene
PaddleSprite == 1

\* a release that leaves the timer running
release_ballKeepsTimer(W) ==
    IF W.paddle.stuck_ball # 0
    THEN LET b == W.paddle.stuck_ball
         IN  [W EXCEPT !.events = unregister(@, "FIRE", release_ballHandler),
                       !.ents = Settle(@, b, hit_ball(@[b], @[PaddleSprite],
                                                      W.paddle.ball_speed)),
                       !.paddle.stuck_ball = 0]
    ELSE W

\* Paddle.release_ball
release_ball(W) ==
    IF W.paddle.stuck_ball # 0
    THEN LET b == W.paddle.stuck_ball
         IN  [W EXCEPT !.events = unregister(@, "FIRE", release_ballHandler),
                       !.timers = timerCancel(@, release_ballHandler),
                       !.ents = Settle(@, b, hit_ball(@[b], @[PaddleSprite],
                                                      W.paddle.ball_speed)),
                       !.paddle.stuck_ball = 0]
    ELSE W

\* Paddle.catch_ball
catch_ball(W, b) ==
    IF W.paddle.stuck_ball = 0
    THEN [W EXCEPT !.paddle.stuck_ball = b,
                   !.ents = Settle(@, b,
                                set_action(Made(@[b]), @[b].action,
                                           Follow(@[b].nextid, PaddleSprite,
                                                  center(@[PaddleSprite].rect)))),
                   !.events = register(@, "FIRE", release_ballHandler),
                   !.timers = timerStart(@, 3, release_ballHandler)]
    ELSE W

\* PaddleMove.on_paddlemove of the PaddleMove object id, wherever it is held
on_paddlemove(W, id, delta) ==
    [W EXCEPT !.ents = [n \in 1..Len(@) |->
        LET me == Find(@[n].action, id)
        IN  IF IsNone(me) THEN @[n]
            ELSE [@[n] EXCEPT !.action = Put(@, id, [me EXCEPT !.delta = @ + delta])]]]

\* Paddle.fire_laser: a clone of the laser sprite, 2 by 6, on top of the paddle
fire_laserHandler == Handler("Paddle", "fire_laser", 0)
fire_laser(W) ==
    LET name == Len(W.ents) + 1
        at == W.ents[PaddleSprite].rect
        sprite == SceneSprite(name, Rect(centerx(at) - 1, top(at) - 6, 2, 6),
                              {"all", "lasers"}, Cfg(1, FALSE, "", ""))
    IN  [W EXCEPT !.ents = Append(@, set_action(Made(sprite), NoAction,
                                                Move(sprite.nextid, <<0, -4 * Den>>)))]

\* a world that keeps the history of the calls made to utils.events and
\* utils.timers and of the handlers they invoked has a field trace
Traced(W, entry) ==
    IF "trace" \in DOMAIN W THEN [W EXCEPT !.trace = Append(@, entry)] ELSE W

\* Events.register / Events.unregister, Timers.start / cancel / clear as
\* called by a handler
registerCall(W, eventtype, h) ==
    Traced([W EXCEPT !.events = register(@, eventtype, h)],
           [op |-> "register", type |-> eventtype, handler |-> h,
            before |-> W.events, after |-> register(W.events, eventtype, h)])
unregisterCall(W, eventtype, h) ==
    Traced([W EXCEPT !.events = unregister(@, eventtype, h)],
           [op |-> "unregister", type |-> eventtype, handler |-> h,
            before |-> W.events, after |-> unregister(W.events, eventtype, h)])
startCall(W, delay, h) ==
    Traced([W EXCEPT !.timers = timerStart(@, delay, h)],
           [op |-> "start", handler |-> h, delay |-> delay,
            pending |-> \E n \in 1..Len(W.timers) : W.timers[n].handler = h])
cancelCall(W, h) ==
    Traced([W EXCEPT !.timers = timerCancel(@, h)], [op |-> "cancel", handler |-> h])
clearCall(W) ==
    Traced([W EXCEPT !.timers = <<>>], [op |-> "clear"])

\* handlers that do nothing but call utils.events or utils.timers: plain
\* returns at once, the others work on the plain handler of the same id
Plain(id) == Handler("Test", "plain", id)

\* one order of a set of handlers
Orders(handlers) ==
    {q \in [1..Cardinality(handlers) -> handlers] :
        \A h \in handlers : \E n \in 1..Cardinality(handlers) : q[n] = h}
SomeOrder(handlers) == CHOOSE q \in Orders(handlers) : TRUE

RECURSIVE Invoke(_, _, _), handleAllLive(_, _, _, _), handleAll(_, _, _, _), handle(_, _, _)

\* handler(event): the call of a registered handler
Invoke(W, h, event) ==
    CASE h.m = "release_ball" -> release_ball(W)
      [] h.m = "fire_laser" -> fire_laser(W)
      [] h.m = "on_paddlemove" -> on_paddlemove(W, h.id, event.delta)
      [] h.m = "registers" -> registerCall(W, event.type, Plain(h.id))
      [] h.m = "unregisters" -> unregisterCall(W, event.type, Plain(h.id))
      [] h.m = "generates" ->
            IF event.type = "FIRE"
            THEN handle(W, SomeOrder(handlersOf(W.events, "POINTS")), [type |-> "POINTS"])
            ELSE W
      [] h.m = "starts" -> startCall(W, 1, Plain(h.id))
      [] h.m = "cancels" -> cancelCall(W, Plain(h.id))
      [] h.m = "restarts" -> startCall(W, 1, h)
      [] h.m = "set_state" -> clearCall([W EXCEPT !.events = {}])
      [] OTHER -> W

\* the loop of Events.handle over the copy of the handlers, in its order;
\* call numbers the generate call
handleAllLive(W, handlers, event, call) ==
    IF handlers = <<>> THEN W
    ELSE handleAllLive(IF Head(handlers) \in handlersOf(W.events, event.type)
                       THEN Invoke(Traced(W, [op |-> "invoke", call |-> call,
                                              handler |-> Head(handlers)]),
                                   Head(handlers), event)
                       ELSE W,
                       Tail(handlers), event, call)

handleAll(W, handlers, event, call) ==
    IF handlers = <<>> THEN W
    ELSE handleAll(Invoke(Traced(W, [op |-> "invoke", call |-> call,
                                     handler |-> Head(handlers)]),
                          Head(handlers), event),
                   Tail(handlers), event, call)

\* Events.handle(event), handlers being handlers.copy() in the order of the
\* set
handle(W, handlers, event) ==
    LET call == IF "trace" \in DOMAIN W
                THEN 1 + Len(SelectSeq(W.trace, LAMBDA c : c.op = "generate")) ELSE 0
        W1 == Traced(W, [op |-> "generate", call |-> call, type |-> event.type,
                         registered |-> handlersOf(W.events, event.type)])
    IN  Traced(handleAll(W1, handlers, event, call), [op |-> "return", call |-> call])

\* Events.generate(event_type, **kwargs)
generate(W, event) == handle(W, SomeOrder(handlersOf(W.events, event.type)), event)

\* Timers.update: the loop over initial_timers
RECURSIVE timersPass(_, _)
timersPass(W, initial_timers) ==
    IF initial_timers = <<>> THEN W
    ELSE LET e == Head(initial_timers)
             frames == e.frames - 1
         IN  IF frames <= 0
             THEN timersPass(Invoke(Traced([W EXCEPT !.timers = timerCancel(@, e.handler)],
                                           [op |-> "fire", handler |-> e.handler]),
                                    e.handler, [type |-> "timer"]),
                             Tail(initial_timers))
             ELSE timersPass(
                    [W EXCEPT !.timers =
                        IF \E n \in 1..Len(@) : @[n].handler = e.handler
                        THEN [n \in 1..Len(@) |->
                                IF @[n].handler = e.handler
                                THEN [handler |-> e.handler, frames |-> frames]
                                ELSE @[n]]
                        ELSE Append(@, [handler |-> e.handler, frames |-> frames])],
                    Tail(initial_timers))
timersUpdate(W) == timersPass(W, W.timers)

\* Paddle._break: Animate(animation).then(Die()).plus(Move([0.5, 0]))
paddle_break(W) ==
    LET s == W.ents[PaddleSprite]
        id == s.nextid
        animation == CASE W.paddle.handler = "normal" -> "paddle_break"
                       [] W.paddle.handler = "expanded" -> "paddle_ext_break"
                       [] W.paddle.handler = "laser" -> "laser_break"
        action == plus(id + 4, then(id + 2, AnimateNamed(id, animation), Die(id + 1)),
                       Move(id + 3, <<Den \div 2, 0>>))
    IN  [W EXCEPT !.ents = Settle(@, PaddleSprite,
                              set_action([s EXCEPT !.nextid = @ + 5], s.action, action))]

\* Engine.set_state(BreakState): the handlers and timers are cleared, then
\* BreakState.__init__ breaks the paddle and kills the balls
set_stateBreak(W, balls) ==
    LET W1 == paddle_break([W EXCEPT !.events = {}, !.timers = <<>>])
    IN  [W1 EXCEPT !.ents = [n \in 1..Len(@) |->
                                IF n \in balls /\ @[n].alive THEN kill(@[n]) ELSE @[n]]]

\* utils.config["kb_speed"]
kb_speed == 3

\* the scene GameState.__init__ leaves: the paddle with its PaddleMove, its
\* on_paddlemove registered, and ball1 caught
NewGame(px) ==
    LET sprite == Entity(PaddleSprite, Rect(px, 180, 16, 4), <<>>)
        ball == Entity(2, Rect(px + 6, 176, 4, 4), <<>>)
        W == World(<<set_action(Made(sprite), NoAction, PaddleMove(sprite.nextid, playspace)),
                     ball>>,
                   [handler |-> "normal", catch |-> FALSE, stuck_ball |-> 0, ball_speed |-> 10],
                   {<<"PADDLEMOVE", on_paddlemoveHandler(sprite.nextid)>>},
                   <<>>)
    IN  catch_ball(W, 2)

\* the sprites of group "balls"
BallSprites == {2}

InitPlay ==
    /\ \E px \in {40, 80}, order \in {<<1, 2>>, <<2, 1>>}, break \in BOOLEAN :
          LET W == NewGame(px)
          IN  /\ ents = W.ents /\ paddle = W.paddle
              /\ events = W.events /\ timers = W.timers
              /\ scen = [state |-> "GameState", order |-> order,
                         break |-> break, break_left |-> right(playspace) - 1,
                         pre |-> [n \in 1..Len(W.ents) |-> W.ents[n].rect],
                         fresh |-> FALSE, inputs |-> 0]
    /\ calls = <<>>
    /\ cin = Idle /\ cout = Idle /\ cshift = Idle
    /\ proj = <<>> /\ obst = <<>> /\ gpc = Idle /\ hitlog = <<>>

\* Engine.update in GameState: the timers, the keyboard scan, the update of
\* group "all", the Break support.  The ball is out of the paddle's reach and
\* the bricks out of the ball's, so that the collision passes find nothing.
GameFrame ==
    /\ scen.state = "GameState"
    /\ ents[PaddleSprite].frame < MaxPlayFrames
    /\ \E direction \in {-1, 0, 1} :
          LET Ended(W2, W3, breaks) ==
                  /\ Becomes(IF breaks THEN set_stateBreak(W3, BallSprites) ELSE W3)
                  /\ scen' = [scen EXCEPT !.state = IF breaks THEN "BreakState" ELSE @,
                                          !.pre = [n \in 1..Len(ents) |-> W2.ents[n].rect],
                                          !.fresh = ~breaks, !.inputs = 0]
              Updated(W2, W3) ==
                  Ended(W2, W3, scen.break
                                   /\ right(W3.ents[PaddleSprite].rect) >= scen.break_left)
              Input(W2) ==
                  Updated(W2, [W2 EXCEPT !.ents =
                                  UpdateGroup(@, SelectSeq(scen.order,
                                                           LAMBDA n : W2.ents[n].alive))])
          IN  Input(generate(timersUpdate(World(ents, paddle, events, timers)),
                             [type |-> "PADDLEMOVE", delta |-> kb_speed * direction]))
    /\ UNCHANGED <<calls, colVars, gameVars>>

\* Engine.input in GameState: a click or a key fires, the mouse moves
Fire ==
    /\ scen.state = "GameState" /\ scen.inputs = 0
    /\ Becomes(generate(World(ents, paddle, events, timers), [type |-> "FIRE"]))
    /\ scen' = [scen EXCEPT !.fresh = FALSE, !.inputs = 1]
    /\ UNCHANGED <<calls, colVars, gameVars>>

\* Engine.update in BreakState: the paddle sprite is updated
BreakFrame ==
    /\ scen.state = "BreakState"
    /\ ents[PaddleSprite].frame < MaxPlayFrames
    /\ LET Ended(W2) ==
               /\ Becomes(W2)
               /\ scen' = [scen EXCEPT
                              !.state = IF W2.ents[PaddleSprite].alive THEN @ ELSE "Left",
                              !.fresh = FALSE]
       IN  Ended([timersUpdate(World(ents, paddle, events, timers))
                     EXCEPT !.ents = UpdateSprite(@, PaddleSprite)])
    /\ UNCHANGED <<calls, colVars, gameVars>>

NextPlay == GameFrame \/ Fire \/ BreakFrame

SpecPlay == InitPlay /\ [][NextPlay]_vars

\* the behaviour object id is held by a live sprite of the scene
Attachedly(id) == \E n \in 1..Len(ents) : ents[n].alive /\ ~IsNone(Find(ents[n].action, id))

\* C13: whenever a behaviour is detached, by set_action replacing it or by
\* its sprite being killed, its stop hook is invoked: no Follow callback of a
\* detached behaviour stays subscribed on its target, no PaddleMove handler
\* of a detached behaviour stays registered, and the last call that the
\* behaviour of a killed sprite got is stop.
C13_StopOnDetach ==
    /\ \A n \in 1..Len(ents) : \A c \in ents[n].callbacks : Attachedly(c.id)
    /\ \A p \in events : p[1] = "PADDLEMOVE" => Attachedly(p[2].id)
    /\ \A n \in 1..Len(ents) :
          (~ents[n].alive /\ ~IsNone(ents[n].action)) =>
              LET mine == CallsTo(ents[n].log, {ents[n].action.id})
              IN  mine # <<>> /\ mine[Len(mine)].op = "stop"

\* C14: for every sprite updated in a frame, at the start of the collision
\* pass last is the rect the sprite had when the behaviour phase began, so
\* that rect - last is all the displacement of this frame, whatever the
\* order of the updates and also for a sprite moved by a Follow notification
\* from its target's update.
C14_LastIsFrameStart ==
    scen.fresh =>
        \A n \in 1..Len(ents) : ents[n].alive => ents[n].last = scen.pre[n]

(***************************************************************************)
(* Sprite.set_action: a sprite whose behaviour is replaced from outside    *)
(* between frames                                                          *)
(***************************************************************************)
\* the identity of a behaviour object, 0 for None
IdOf(b) == IF IsNone(b) THEN 0 ELSE b.id

\* a set_action call on sprite i: the held and the new behaviour, the part
\* of the sprite's call history that the call wrote (from, to], and the
\* behaviour held afterwards
SetActionCall(i, old, new, from, after, outside) ==
    [sprite |-> i, old |-> IdOf(old), new |-> IdOf(new), from |-> from,
     to |-> Len(after.log), held |-> IdOf(after.action), outside |-> outside]

\* the behaviours a caller may attach; n numbers the call
Replacements(s, n) ==
    {NoAction, s.action, Move(20 + 3 * n, <<Den, 0>>),
     then(22 + 3 * n, Delay(20 + 3 * n, 1), Move(21 + 3 * n, <<0, Den>>)),
     plus(22 + 3 * n, MoveLimited(20 + 3 * n, <<1, 1>>, 2), Blink(21 + 3 * n, 1)),
     Follow(20 + 3 * n, 2, center(Rect(0, 0, 4, 4)))}

InitSetAction ==
    /\ \E p \in {<<NoAction>>} \cup {<<a>> : a \in Prims(1)}
                 \cup {<<then(10, a, b)>> : a \in {Delay(1, 1), Die(1)}, b \in Prims(2)}
                 \cup {<<plus(10, a, b)>> : a \in {Delay(1, 1), Die(1)}, b \in Prims(2)} :
          ents = <<set_action(Entity(1, Rect(0, 0, 4, 4), <<>>), NoAction, p[1]),
                   Entity(2, Rect(0, 0, 4, 4), <<>>)>>
    /\ scen = Idle /\ calls = <<>>
    /\ cin = Idle /\ cout = Idle /\ cshift = Idle
    /\ proj = <<>> /\ obst = <<>> /\ gpc = Idle /\ hitlog = <<>>
    /\ paddle = Idle /\ events = Idle /\ timers = Idle

\* a frame: Sprite.update of both sprites; the set_action call that
\* Sprite.update makes on sprite 1 is recorded
TickSetAction ==
    /\ ents[1].frame < MaxN + 1
    /\ ents' = UpdateGroup(ents, <<1, 2>>)
    /\ calls' = IF IsNone(ents[1].action) THEN calls
                ELSE LET r == update(ents[1].action,
                                     [ents[1] EXCEPT !.last = ents[1].rect, !.frame = @ + 1])
                     IN  Append(calls, SetActionCall(1, r.me, r.ret, Len(r.s.log), ents'[1], FALSE))
    /\ UNCHANGED <<scen, colVars, gameVars, paddle, events, timers>>

\* sprite.set_action(new) called from outside
Replace ==
    /\ Len(SelectSeq(calls, LAMBDA c : c.outside)) < MaxCalls
    /\ ents[1].alive
    /\ \E new \in Replacements(ents[1], Len(calls)) :
          /\ ents' = SetAction(ents, 1, new)
          /\ calls' = Append(calls, SetActionCall(1, ents[1].action, new,
                                                  Len(ents[1].log), ents'[1], TRUE))
    /\ UNCHANGED <<scen, colVars, gameVars, paddle, events, timers>>

NextSetAction == TickSetAction \/ Replace

SpecSetAction == InitSetAction /\ [][NextSetAction]_vars

\* what call c wrote into the call history of its sprite
Written(c) == SubSeq(ents[c.sprite].log, c.from + 1, c.to)

\* C12: set_action(b) with b not the held behaviour calls stop on the held
\* behaviour (if any) exactly once and then start on b (if not none) exactly
\* once, every stop before every start, and leaves b held; set_action with
\* the held behaviour calls neither stop nor start.
C12_SetAction ==
    \A n \in 1..Len(calls) :
        LET c == calls[n]
            w == Written(c)
        IN  /\ c.held = c.new
            /\ \A m \in 1..Len(w) : w[m].op \in {"stop", "start"}
            /\ IF c.old = c.new THEN w = <<>>
               ELSE /\ Len(Calls(w, "stop", c.old)) = (IF c.old = 0 THEN 0 ELSE 1)
                    /\ Len(Calls(w, "start", c.new)) = (IF c.new = 0 THEN 0 ELSE 1)
                    /\ \A a, b \in 1..Len(w) :
                          (w[a].op = "stop" /\ w[b].op = "start") => a < b
                    /\ c.old # 0 => (w[1].op = "stop" /\ w[1].id = c.old)

C12_Witness ==
    /\ \E n \in 1..Len(calls) :
          /\ calls[n].old # 0 /\ calls[n].new >= 20 /\ calls[n].old # calls[n].new
          /\ Len(Written(calls[n])) >= 4
    /\ \E n \in 1..Len(calls) :
          calls[n].old # 0 /\ calls[n].new = calls[n].old /\ ~calls[n].outside
    /\ \E n \in 1..Len(calls) :
          calls[n].old # 0 /\ calls[n].new = calls[n].old /\ calls[n].outside

(***************************************************************************)
(* Behaviours that change into another: an alien's AlienJuke and           *)
(* AlienDescend held by the sprite itself, by a Series or by a Parallel    *)
(***************************************************************************)
\* the holders of a behaviour b of the sprite: Sprite, Series([b, Move]),
\* Parallel([b, Move])
Holders(b) ==
    {b, then(10, b, Move(2, <<0, 0>>)), plus(10, b, Move(2, <<0, 0>>))}

Aliens == {AlienJuke(1, 1), AlienJuke(1, -1), AlienDescend(1)}

InitMorph ==
    /\ \E a \in Aliens, x \in {10, 42, 80}, draw \in 1..5 :
          \E held \in Holders(a) :
             /\ ents = <<set_action(Entity(1, Rect(x, 0, 8, 8), <<draw>>), NoAction, held)>>
             /\ scen = [holder |-> IF held = a THEN "Sprite" ELSE held.k]
    /\ calls = <<>>
    /\ cin = Idle /\ cout = Idle /\ cshift = Idle
    /\ proj = <<>> /\ obst = <<>> /\ gpc = Idle /\ hitlog = <<>>
    /\ paddle = Idle /\ events = Idle /\ timers = Idle

\* a frame: Sprite.update
TickMorph ==
    /\ ents[1].frame < MaxMorphFrames
    /\ ents' = <<SpriteUpdate(ents[1])>>
    /\ UNCHANGED <<scen, colVars, gameVars, sysVars>>

NextMorph == TickMorph

SpecMorph == InitMorph /\ [][NextMorph]_vars

\* the calls that behaviour id received, in order
CallsOf(log, id) == SelectSeq(log, LAMBDA c : c.id = id)

\* has behaviour id been started and not stopped since, after its first n calls
RECURSIVE Running(_, _)
Running(h, n) ==
    IF n = 0 THEN FALSE
    ELSE CASE h[n].op = "start" -> TRUE
           [] h[n].op = "stop" -> FALSE
           [] OTHER -> Running(h, n - 1)

WellFormed(h) ==
    \A n \in 1..Len(h) :
        /\ h[n].op = "start" => ~Running(h, n - 1)
        /\ h[n].op = "stop" => Running(h, n - 1)
        /\ h[n].op = "update" =>
              /\ Running(h, n - 1)
              /\ \A m \in 1..(n - 1) : h[m].op = "update" => h[m].f # h[n].f

\* the behaviour that AlienJuke / AlienDescend changed into
Morphed(s) == s.nextid > 100 * s.name + 1

InGroup(s, group) == s.alive /\ group \in s.groups

\* group.sprites(), as places in the scene
GroupSprites(w, group) ==
    SelectSeq([n \in 1..Len(w) |-> n], LAMBDA n : InGroup(w[n], group))

\* pygame.sprite.spritecollide(w[i], groups[group], False)
spritecollideGroup(w, i, group) ==
    SelectSeq(GroupSprites(w, group), LAMBDA n : colliderect(w[i].rect, w[n].rect))

\* find_closest over the sprites of a scene
closestOf(w, projectile, sprites) ==
    LET first == CHOOSE j \in 1..Len(sprites) :
                    /\ \A m \in 1..Len(sprites) :
                          keyfunc(projectile, w[sprites[j]])
                              <= keyfunc(projectile, w[sprites[m]])
                    /\ \A m \in 1..(j - 1) :
                          keyfunc(projectile, w[sprites[j]])
                              < keyfunc(projectile, w[sprites[m]])
    IN  sprites[first]

\* overlap / float(vel) as a fraction with a positive denominator, a zero
\* velocity being taken as 0.00001
TimeTo(overlap, vel) ==
    IF vel = 0 THEN <<overlap * 100000, 1>>
    ELSE IF vel > 0 THEN <<overlap, vel>>
    ELSE <<-overlap, -vel>>

\* int(-0.00001 * (k / 0.00001)) in double precision
EpsilonRewind(k) ==
    CASE Abs(k) \in {1, 2} -> IF k > 0 THEN 1 - k ELSE -1 - k
      [] Abs(k) \in {4, 8, 15, 16} -> IF k > 0 THEN 1 - k ELSE -1 - k
      [] OTHER -> -k

\* int(-vel * time)
Rewind(vel, time) ==
    IF vel # 0 THEN ToIntOver(-vel * time[1], time[2])
    ELSE IF time[1] % 100000 = 0 THEN EpsilonRewind(time[1] \div 100000)
    ELSE 0

\* a resolution along sprite1's own velocity, whatever sprite2 does
collision_move_to_edgeOwnVelocity(sprite1, sprite2) ==
    LET overlap_x(vel_x) == IF vel_x >= 0 THEN right(sprite1.rect) - left(sprite2.rect)
                            ELSE left(sprite1.rect) - right(sprite2.rect)
        overlap_y(vel_y) == IF vel_y >= 0 THEN bottom(sprite1.rect) - top(sprite2.rect)
                            ELSE top(sprite1.rect) - bottom(sprite2.rect)
        Earlier(time_x, time_y) == IF Less(time_x, time_y) THEN time_x ELSE time_y
        Back(vel_x, vel_y, time) ==
            [sprite1 EXCEPT !.rect = move(@, Rewind(vel_x, time), Rewind(vel_y, time))]
        Resolve(vel_x, vel_y) ==
            Back(vel_x, vel_y, Earlier(TimeTo(overlap_x(vel_x), vel_x),
                                       TimeTo(overlap_y(vel_y), vel_y)))
    IN  Resolve(Velocity(sprite1)[1], Velocity(sprite1)[2])

\* collision_move_to_edge: sprite1 afterwards
collision_move_to_edge(sprite1, sprite2) ==
    LET overlap_x(vel_x) == IF vel_x >= 0 THEN right(sprite1.rect) - left(sprite2.rect)
                            ELSE left(sprite1.rect) - right(sprite2.rect)
        overlap_y(vel_y) == IF vel_y >= 0 THEN bottom(sprite1.rect) - top(sprite2.rect)
                            ELSE top(sprite1.rect) - bottom(sprite2.rect)
        Earlier(time_x, time_y) == IF Less(time_x, time_y) THEN time_x ELSE time_y
        Back(vel_x, vel_y, time) ==
            [sprite1 EXCEPT !.rect = move(@, Rewind(vel_x, time), Rewind(vel_y, time))]
        Resolve(vel_x, vel_y) ==
            Back(vel_x, vel_y, Earlier(TimeTo(overlap_x(vel_x), vel_x),
                                       TimeTo(overlap_y(vel_y), vel_y)))
    IN  Resolve(Velocity(sprite1)[1] - Velocity(sprite2)[1],
                Velocity(sprite1)[2] - Velocity(sprite2)[2])

\* Sprite.hit of sprite i (no handler of the scene listens to POINTS or
\* CAPSULE)
SpriteHitAdvancing(W, i) ==
    [W EXCEPT !.ents = UpdateSprite(@, i)]

SpriteHit(W, i) ==
    LET Animated(s0) ==
            IF s0.cfg.hit_animation # ""
            THEN set_action([s0 EXCEPT !.nextid = @ + 2], s0.action,
                            IF ~IsNone(s0.action)
                            THEN plus(s0.nextid + 1, s0.action,
                                      AnimateNamed(s0.nextid, s0.cfg.hit_animation))
                            ELSE AnimateNamed(s0.nextid, s0.cfg.hit_animation))
            ELSE s0
        Dying(dead) ==
            IF dead.cfg.death_animation # ""
            THEN [set_action([dead EXCEPT !.nextid = @ + 3], dead.action,
                             then(dead.nextid + 2,
                                  AnimateNamed(dead.nextid, dead.cfg.death_animation),
                                  Die(dead.nextid + 1)))
                    EXCEPT !.alive = TRUE, !.groups = {"all"}]
            ELSE dead
        Counted(s1) ==
            IF s1.cfg.hits = 0 THEN s1
            ELSE IF s1.cfg.hits - 1 # 0 THEN [s1 EXCEPT !.cfg.hits = @ - 1]
            ELSE Dying([kill(s1) EXCEPT !.cfg.hits = 0, !.groups = {}])
    IN  [W EXCEPT !.ents = Settle(@, i, Counted(Animated(W.ents[i])))]

\* Paddle.hit(ball)
paddle_hit(W, b) ==
    LET Bounces(W1) ==
            IF W1.paddle.catch THEN catch_ball(W1, b)
            ELSE IF W1.paddle.stuck_ball # 0 THEN release_ball(W1)
            ELSE [W1 EXCEPT !.ents = Settle(@, b, hit_ball(@[b], @[PaddleSprite],
                                                           W1.paddle.ball_speed))]
    IN  Bounces([W EXCEPT !.ents[b] = collision_move_to_edge(@, W.ents[PaddleSprite])])

\* "Paddle collisions": the sprites that spritecollide returned, in order
\* (no sprite of the scene has an effect or kills the paddle)
RECURSIVE PaddleHits(_, _)
PaddleHits(W, sprites) ==
    LET Bounced(W1, i) == IF W1.ents[i].cfg.paddle_bounce THEN paddle_hit(W1, i) ELSE W1
    IN  IF sprites = <<>> THEN W
        ELSE PaddleHits(Bounced(SpriteHit(W, Head(sprites)), Head(sprites)), Tail(sprites))

PaddleCollisions(W) ==
    LET Others(W1) == PaddleHits(W1, spritecollideGroup(W1.ents, PaddleSprite, "paddle"))
    IN  Others(PaddleHits(W, spritecollideGroup(W.ents, PaddleSprite, "balls")))

\* the slide-retry loop of projectile p from attempt on
RECURSIVE Attempts(_, _, _)
Attempts(W, p, attempt) ==
    LET Bounces(W2, c) ==
            IF W2.ents[p].alive /\ IsMove(W2.ents[p].action)
            THEN [W2 EXCEPT !.ents[p] = Bounce(@, W2.ents[c], collision_side(@, W2.ents[c]))]
            ELSE W2
        Motion(s) == [rect |-> s.rect,
                      delta |-> IF IsMove(s.action) THEN s.action.delta ELSE <<>>]
        Logged(W2, W3, c) ==
            Traced(W3, [op |-> "attempt", p |-> p, attempt |-> attempt, closest |-> c,
                        resolved |-> W2.ents[p].alive /\ IsMove(W2.ents[p].action),
                        side |-> collision_side(W2.ents[p], W2.ents[c]),
                        before |-> Motion(W2.ents[p]), after |-> Motion(W3.ents[p]),
                        obstacle |-> W2.ents[c].rect])
        Reflect(W2, c) == Logged(W2, Bounces(W2, c), c)
        Hit(c) == Attempts(Reflect(SpriteHit(SpriteHit(W, p), c), c), p, attempt + 1)
        Scan(sprites) ==
            IF attempt = 3 \/ sprites = <<>> THEN W
            ELSE Hit(closestOf(W.ents, W.ents[p], sprites))
    IN  Scan(spritecollideGroup(W.ents, p, "ball"))

\* "Projectile collisions": the balls and the laser bolts that the groups
\* held when the pass began
RECURSIVE ProjectileCollisions(_, _)
ProjectileCollisions(W, projectiles) ==
    IF projectiles = <<>> THEN W
    ELSE ProjectileCollisions(Attempts(W, Head(projectiles), 0), Tail(projectiles))

\* "Destroy anything that wanders off the playspace"
OffPlayspace(w) ==
    [n \in 1..Len(w) |->
        IF (InGroup(w[n], "paddle") \/ InGroup(w[n], "balls"))
              /\ top(w[n].rect) >= bottom(playspace)
        THEN [kill(w[n]) EXCEPT !.groups = {}] ELSE w[n]]

\* the state that the end of GameState.update leaves
RECURSIVE Remaining(_, _)
Remaining(w, n) ==
    IF n = 0 THEN 0
    ELSE Remaining(w, n - 1) + (IF InGroup(w[n], "bricks") THEN w[n].cfg.hits ELSE 0)
StateAfter(w) ==
    IF Remaining(w, Len(w)) = 0 THEN "ClearState"
    ELSE IF GroupSprites(w, "balls") = <<>> THEN "DeathState"
    ELSE "GameState"

\* the calls of Engine.set_state that "Check for death" and "Level completion
\* detection" make, in order (group "break" of the scene is empty)
SetStates(w) ==
    (IF GroupSprites(w, "balls") = <<>> THEN <<"DeathState">> ELSE <<>>)
        \o (IF Remaining(w, Len(w)) = 0 THEN <<"ClearState">> ELSE <<>>)

\* the scene: the paddle, a ball, an inlet about to spawn an alien, a brick
\* (InitScene may add an alien that an inlet has spawned before)
SceneOf(ball, velocity, inlet) ==
    LET sprite == SceneSprite(PaddleSprite, Rect(40, 180, 16, 4), {"all"},
                              Cfg(0, FALSE, "", ""))
        ball1 == SceneSprite(2, ball, {"all", "balls"}, Cfg(0, TRUE, "", ""))
        inlet_left == SceneSprite(3, Rect(44, 168, 8, 4), {"all"}, Cfg(0, FALSE, "", ""))
        brick == SceneSprite(4, Rect(8, 16, 8, 4), {"all", "ball", "bricks"},
                             Cfg(1, FALSE, "", ""))
    IN  <<set_action(Made(sprite), NoAction, PaddleMove(sprite.nextid, playspace)),
          set_action(Made(ball1), NoAction, Move(ball1.nextid, velocity)),
          set_action([inlet_left EXCEPT !.nextid = @ + 3], NoAction, inlet),
          brick>>

InitScene ==
    /\ \E x \in {29, 42, 46, 50}, y \in {154, 174}, vx \in {-1, 0, 1},
          inlet \in {Spawn(301), then(303, Delay(301, 1), Spawn(302))},
          aliens \in {<<>>, <<SpawnClone(5, Rect(24, 180, 8, 8))>>,
                      <<SpawnClone(5, Rect(34, 172, 8, 8))>>} :
          ents = SceneOf(Rect(x, y, 4, 4), <<vx * Den, 2 * Den>>, inlet) \o aliens
    /\ paddle = [handler |-> "normal", catch |-> FALSE, stuck_ball |-> 0, ball_speed |-> 10]
    /\ events = {<<"PADDLEMOVE", on_paddlemoveHandler(101)>>}
    /\ timers = <<>>
    /\ gpc = [phase |-> "update", frame |-> 0]
    /\ scen = [state |-> "GameState", set_state |-> <<>>]
    /\ calls = <<>>
    /\ cin = Idle /\ cout = Idle /\ cshift = Idle
    /\ proj = <<>> /\ obst = <<>> /\ hitlog = <<>>

\* Engine.update up to the collisions: the timers, keyboard_input, the
\* update of group "all"
SceneUpdate ==
    /\ gpc.phase = "update" /\ scen.state = "GameState"
    /\ gpc.frame < MaxSceneFrames
    /\ \E direction \in {-1, 0, 1} :
          LET W1 == timersUpdate(World(ents, paddle, events, timers))
              W2 == generate(W1, [type |-> "PADDLEMOVE", delta |-> kb_speed * direction])
          IN  Becomes([W2 EXCEPT !.ents = UpdateGroup(@, GroupSprites(@, "all"))])
    /\ gpc' = [phase |-> "paddle", frame |-> gpc.frame + 1]
    /\ UNCHANGED <<scen, calls, colVars, proj, obst, hitlog>>

ScenePaddle ==
    /\ gpc.phase = "paddle"
    /\ Becomes(PaddleCollisions(World(ents, paddle, events, timers)))
    /\ gpc' = [gpc EXCEPT !.phase = "projectile"]
    /\ UNCHANGED <<scen, calls, colVars, proj, obst, hitlog>>

SceneProjectile ==
    /\ gpc.phase = "projectile"
    /\ LET Passed(W) == Becomes(W) /\ hitlog' = W.trace
       IN  Passed(ProjectileCollisions(
                      [ents |-> ents, paddle |-> paddle, events |-> events,
                       timers |-> timers, trace |-> <<>>],
                      GroupSprites(ents, "balls") \o GroupSprites(ents, "lasers")))
    /\ gpc' = [gpc EXCEPT !.phase = "end"]
    /\ UNCHANGED <<scen, calls, colVars, proj, obst>>

SceneEnd ==
    /\ gpc.phase = "end"
    /\ ents' = OffPlayspace(ents)
    /\ scen' = [state |-> StateAfter(ents'), set_state |-> SetStates(ents')]
    /\ gpc' = [gpc EXCEPT !.phase = "update"]
    /\ UNCHANGED <<paddle, events, timers, calls, colVars, proj, obst, hitlog>>

NextScene == SceneUpdate \/ ScenePaddle \/ SceneProjectile \/ SceneEnd

SpecScene == InitScene /\ [][NextScene]_vars

\* the update calls that the behaviours of a sprite got
UpdateCalls(s) == SelectSeq(s.log, LAMBDA c : c.op = "update")
\* how many more update calls behaviour id has got in new than in old
Advances(old, new, id) ==
    Len(Calls(new.log, "update", id)) - Len(Calls(old.log, "update", id))
LoggedIds(s) == {s.log[m].id : m \in 1..Len(s.log)}

\* the passes of a frame come in order
PassOrder ==
    /\ gpc.phase = "update" => gpc'.phase = "paddle" /\ gpc'.frame = gpc.frame + 1
    /\ gpc.phase = "paddle" => gpc'.phase = "projectile" /\ gpc'.frame = gpc.frame
    /\ gpc.phase = "projectile" => gpc'.phase = "end" /\ gpc'.frame = gpc.frame
    /\ gpc.phase = "end" => gpc'.phase = "update" /\ gpc'.frame = gpc.frame

\* no behaviour update runs in a step that is not the update pass
NoAdvanceInCollisions ==
    gpc.phase # "update" =>
        /\ Len(ents') = Len(ents)
        /\ \A n \in 1..Len(ents) :
              /\ ents'[n].frame = ents[n].frame
              /\ UpdateCalls(ents'[n]) = UpdateCalls(ents[n])

\* C16 as stated: in every GameState frame each entity in group "all" has
\* its behaviour advanced exactly once, all the advances are over before the
\* first paddle or projectile overlap check, and no behaviour update runs
\* during the collision passes.
C16_EveryEntityAdvanced ==
    [][/\ PassOrder
       /\ NoAdvanceInCollisions
       /\ gpc.phase = "update" =>
             \A n \in 1..Len(ents') :
                 InGroup(ents'[n], "all") =>
                     ents'[n].frame = (IF n <= Len(ents) THEN ents[n].frame ELSE 0) + 1]_vars

\* C16, amended: in every GameState frame each entity that is in group "all"
\* when the update pass begins is updated exactly once and each of its
\* behaviours at most once, its held behaviour exactly once; the update pass
\* is over before the first paddle or projectile overlap check, and no
\* behaviour update runs during the collision passes; a sprite added during
\* the update pass and a behaviour attached during a collision pass are
\* only started, and first updated in the next frame.
C16_FrameOrder ==
    [][/\ PassOrder
       /\ NoAdvanceInCollisions
       /\ gpc.phase = "update" =>
             /\ Len(ents') >= Len(ents)
             /\ \A n \in 1..Len(ents) :
                   IF InGroup(ents[n], "all")
                   THEN /\ ents'[n].frame = ents[n].frame + 1
                        /\ \A id \in LoggedIds(ents'[n]) :
                              Advances(ents[n], ents'[n], id) <= 1
                        /\ ~IsNone(ents[n].action) =>
                              Advances(ents[n], ents'[n], ents[n].action.id) = 1
                   ELSE /\ ents'[n].frame = ents[n].frame
                        /\ UpdateCalls(ents'[n]) = UpdateCalls(ents[n])
             /\ \A n \in (Len(ents) + 1)..Len(ents') :
                   /\ ents'[n].frame = 0
                   /\ UpdateCalls(ents'[n]) = <<>>
                   /\ Len(Calls(ents'[n].log, "start", ents'[n].action.id)) = 1]_vars

\* an alien spawned in an update pass has been updated in a later frame, and
\* the Move that Paddle.hit_ball gave the ball in a paddle pass, started
\* there, has been updated in the next frame
C16_Witness ==
    /\ gpc.phase = "paddle"
    /\ Len(ents) = 5 /\ ents[5].frame = gpc.frame - 1
    /\ \E i, j \in 1..Len(ents[2].log) :
          /\ i < j
          /\ ents[2].log[i] = [f |-> gpc.frame - 1, op |-> "start", id |-> 202]
          /\ ents[2].log[j] = [f |-> gpc.frame, op |-> "update", id |-> 202]

(***************************************************************************)
(* The paddle's modes (Paddle.normal_handler, expanded_handler,            *)
(* laser_handler), driven by the effects of caught capsules                *)
(***************************************************************************)
\* utils.events after the registrations that a sprite's update asked for
RECURSIVE Registrations(_, _)
Registrations(ev, fx) ==
    IF fx = <<>> THEN ev
    ELSE Registrations(IF Head(fx).op = "register"
                       THEN register(ev, Head(fx).eventtype, Head(fx).handler) ELSE ev,
                       Tail(fx))

\* Group.update with the calls of Callback behaviours
RECURSIVE UpdateWorld(_, _)
UpdateWorld(W, order) ==
    IF order = <<>> THEN W
    ELSE UpdateWorld([W EXCEPT !.ents = UpdateSprite(@, Head(order)),
                               !.events = Registrations(@,
                                              SpriteUpdate(W.ents[Head(order)]).fx)],
                     Tail(order))

\* self.sprite.set_action(self.sprite.action.plus(new)); self.handler = mode.
\* new is made of objects numbered from the sprite's nextid, used of them
\* without the Parallel; plus on None raises AttributeError
Transition(W, new, used, mode) ==
    LET s == W.ents[PaddleSprite]
    IN  IF IsNone(s.action) THEN [W EXCEPT !.paddle.raised = TRUE]
        ELSE [W EXCEPT !.ents = Settle(@, PaddleSprite,
                                    set_action([s EXCEPT !.nextid = @ + used + 1], s.action,
                                               plus(s.nextid + used, s.action, new))),
                       !.paddle.handler = mode]

ThenRegister(id, first) == then(id + 1, first, Callback(id, "FIRE", fire_laserHandler))

normal_handler(W, event) ==
    LET id == W.ents[PaddleSprite].nextid
    IN  IF event = "expand"
        THEN Transition(W, AnimateNamed(id, "paddle_grow"), 1, "expanded")
        ELSE IF event = "laser"
        THEN Transition(W, ThenRegister(id + 1, AnimateNamed(id, "paddle_to_laser")), 3, "laser")
        ELSE W

expanded_handler(W, event) ==
    LET id == W.ents[PaddleSprite].nextid
    IN  IF event = "normal"
        THEN Transition(W, AnimateNamed(id, "paddle_shrink"), 1, "normal")
        ELSE IF event = "laser"
        THEN Transition(W, then(id + 4, AnimateNamed(id, "paddle_shrink"),
                                ThenRegister(id + 2, AnimateNamed(id + 1, "paddle_to_laser"))),
                        5, "laser")
        ELSE W

\* the unregister is not reached when the set_action line has raised
Unregistered(W) ==
    IF W.paddle.raised THEN W
    ELSE [W EXCEPT !.events = unregister(@, "FIRE", fire_laserHandler)]

laser_handlerAgain(W, event) ==
    LET id == W.ents[PaddleSprite].nextid
    IN  IF event = "expand"
        THEN Unregistered(Transition(W, then(id + 2, AnimateNamed(id, "laser_to_paddle"),
                                             AnimateNamed(id + 1, "paddle_grow")),
                                     3, "expanded"))
        ELSE IF event = "normal"
        THEN Unregistered(Transition(W, AnimateNamed(id, "laser_to_paddle"), 1, "normal"))
        ELSE Transition(W, ThenRegister(id + 1, AnimateNamed(id, "paddle_to_laser")), 3, "laser")

laser_handler(W, event) ==
    LET id == W.ents[PaddleSprite].nextid
    IN  IF event = "expand"
        THEN Unregistered(Transition(W, then(id + 2, AnimateNamed(id, "laser_to_paddle"),
                                             AnimateNamed(id + 1, "paddle_grow")),
                                     3, "expanded"))
        ELSE IF event = "normal"
        THEN Unregistered(Transition(W, AnimateNamed(id, "laser_to_paddle"), 1, "normal"))
        ELSE W

\* self.paddle.handler(event)
handler(W, event) ==
    CASE W.paddle.handler = "normal" -> normal_handler(W, event)
      [] W.paddle.handler = "expanded" -> expanded_handler(W, event)
      [] W.paddle.handler = "laser" -> laser_handler(W, event)

\* Paddle.__init__ in a new GameState, the ball left out
InitMode ==
    /\ LET sprite == SceneSprite(PaddleSprite, Rect(40, 180, 16, 4), {"all"},
                                 Cfg(0, FALSE, "", ""))
       IN  ents = <<set_action(Made(sprite), NoAction,
                               PaddleMove(sprite.nextid, playspace))>>
    /\ paddle = [handler |-> "normal", catch |-> FALSE, stuck_ball |-> 0,
                 ball_speed |-> 10, raised |-> FALSE]
    /\ events = {<<"PADDLEMOVE", on_paddlemoveHandler(101)>>}
    /\ timers = <<>>
    /\ calls = <<>>
    /\ scen = [fired |-> 0]
    /\ cin = Idle /\ cout = Idle /\ cshift = Idle
    /\ proj = <<>> /\ obst = <<>> /\ gpc = Idle /\ hitlog = <<>>

\* Capsules.apply: the call of the paddle's handler for the effect
ModeEvent ==
    /\ Len(calls) < MaxModeEvents
    /\ \E event \in {"normal", "expand", "laser"} :
          /\ Becomes(handler(World(ents, paddle, events, timers), event))
          /\ calls' = Append(calls, [mode |-> paddle.handler, event |-> event])
    /\ UNCHANGED <<scen, colVars, gameVars>>

\* a frame: the update of group "all"
ModeFrame ==
    /\ ents[PaddleSprite].frame < MaxModeFrames
    /\ Becomes(UpdateWorld(World(ents, paddle, events, timers), GroupSprites(ents, "all")))
    /\ UNCHANGED <<scen, calls, colVars, gameVars>>

\* a click: GameState.on_click generates FIRE
ModeFire ==
    /\ scen.fired < 1
    /\ Becomes(generate(World(ents, paddle, events, timers), [type |-> "FIRE"]))
    /\ scen' = [scen EXCEPT !.fired = @ + 1]
    /\ UNCHANGED <<calls, colVars, gameVars>>

NextMode == ModeEvent \/ ModeFrame \/ ModeFire

SpecMode == InitMode /\ [][NextMode]_vars

Modes == {"normal", "expanded", "laser"}
ModeTransitions ==
    {<<"normal", "expand", "expanded">>, <<"normal", "laser", "laser">>,
     <<"expanded", "normal", "normal">>, <<"expanded", "laser", "laser">>,
     <<"laser", "expand", "expanded">>, <<"laser", "normal", "normal">>}
ModeNoOps == {<<"normal", "normal">>, <<"expanded", "expand">>, <<"laser", "laser">>}

\* C17: the paddle mode is always exactly one of Normal, Expanded, Laser and
\* changes only by the six transitions Normal-expand->Expanded,
\* Normal-laser->Laser, Expanded-normal->Normal, Expanded-laser->Laser,
\* Laser-expand->Expanded, Laser-normal->Normal; every other (mode, event)
\* pair raises no error and leaves the mode, the paddle's behaviour and the
\* FIRE registrations unchanged.
C17_ModeMachine ==
    [][/\ paddle.handler \in Modes /\ paddle'.handler \in Modes
       /\ paddle'.handler # paddle.handler =>
             /\ Len(calls') = Len(calls) + 1
             /\ <<paddle.handler, calls'[Len(calls')].event, paddle'.handler>>
                    \in ModeTransitions
       /\ Len(calls') = Len(calls) + 1 =>
             LET event == calls'[Len(calls')].event
             IN  /\ ~paddle'.raised
                 /\ <<paddle.handler, event, paddle'.handler>> \in ModeTransitions
                        \/ /\ <<paddle.handler, event>> \in ModeNoOps
                           /\ paddle' = paddle
                           /\ ents' = ents
                           /\ handlersOf(events', "FIRE") = handlersOf(events, "FIRE")]_vars

\* Normal-laser->Laser, then laser in Laser, then Laser-expand->Expanded, in
\* a run in which a bolt was fired (fire_laser was registered) and
\* fire_laser has been unregistered again
C17_Witness ==
    /\ Len(calls) = MaxModeEvents
    /\ calls[1] = [mode |-> "normal", event |-> "laser"]
    /\ calls[2] = [mode |-> "laser", event |-> "laser"]
    /\ calls[3] = [mode |-> "laser", event |-> "expand"]
    /\ paddle.handler = "expanded"
    /\ Len(ents) = 2
    /\ handlersOf(events, "FIRE") = {}

(***************************************************************************)
(* utils.events on its own: register, unregister and generate called from  *)
(* outside, with handlers that call utils.events themselves                *)
(***************************************************************************)
Unregisters(id) == Handler("Test", "unregisters", id)
Registers(id) == Handler("Test", "registers", id)
Generates == Handler("Test", "generates", 0)

\* a world of nothing but utils.events and utils.timers, with its history
Dispatch(ev, tm, trace) ==
    [ents |-> <<>>, paddle |-> Idle, events |-> ev, timers |-> tm, trace |-> trace]

InitEvents ==
    /\ events \in {{},
                   {<<"FIRE", Plain(1)>>, <<"FIRE", Unregisters(1)>>},
                   {<<"FIRE", Plain(1)>>, <<"FIRE", Unregisters(1)>>,
                    <<"FIRE", Registers(2)>>, <<"POINTS", Plain(2)>>},
                   {<<"FIRE", Generates>>, <<"FIRE", Plain(1)>>,
                    <<"POINTS", Plain(1)>>, <<"POINTS", Unregisters(1)>>}}
    /\ calls = <<>>
    /\ scen = [made |-> 0]
    /\ ents = <<>> /\ paddle = Idle /\ timers = <<>>
    /\ cin = Idle /\ cout = Idle /\ cshift = Idle
    /\ proj = <<>> /\ obst = <<>> /\ gpc = Idle /\ hitlog = <<>>

EventsRegister ==
    /\ scen.made < MaxEventCalls
    /\ \E id \in 1..2 :
          LET W == registerCall(Dispatch(events, timers, calls), "FIRE", Plain(id))
          IN  events' = W.events /\ calls' = W.trace
    /\ scen' = [scen EXCEPT !.made = @ + 1]
    /\ UNCHANGED <<ents, paddle, timers, colVars, gameVars>>

EventsUnregister ==
    /\ scen.made < MaxEventCalls
    /\ \E id \in 1..2 :
          LET W == unregisterCall(Dispatch(events, timers, calls), "FIRE", Plain(id))
          IN  events' = W.events /\ calls' = W.trace
    /\ scen' = [scen EXCEPT !.made = @ + 1]
    /\ UNCHANGED <<ents, paddle, timers, colVars, gameVars>>

\* Events.generate; the set of handlers is walked in any order
EventsGenerate ==
    /\ scen.made < MaxEventCalls
    /\ \E eventtype \in {"FIRE", "POINTS"} :
          \E order \in Orders(handlersOf(events, eventtype)) :
             LET W == handle(Dispatch(events, timers, calls), order, [type |-> eventtype])
             IN  events' = W.events /\ calls' = W.trace
    /\ scen' = [scen EXCEPT !.made = @ + 1]
    /\ UNCHANGED <<ents, paddle, timers, colVars, gameVars>>

NextEvents == EventsRegister \/ EventsUnregister \/ EventsGenerate

SpecEvents == InitEvents /\ [][NextEvents]_vars

\* the places of the history where generate call number call invoked h
InvokedAt(call, h) ==
    {k \in 1..Len(calls) : calls[k] = [op |-> "invoke", call |-> call, handler |-> h]}

\* C18: Events.generate(kind) invokes every handler that is registered for
\* kind at the moment of the call exactly once, before generate returns, and
\* no handler of another kind; a handler registered more than once for a
\* kind is registered, and so invoked, once; unregistering a handler that is
\* not registered changes nothing.
C18_Generate ==
    \A i \in 1..Len(calls) :
        /\ calls[i].op = "generate" =>
              \E j \in (i + 1)..Len(calls) :
                 /\ calls[j] = [op |-> "return", call |-> calls[i].call]
                 /\ \A h \in calls[i].registered :
                       /\ Cardinality(InvokedAt(calls[i].call, h)) = 1
                       /\ \A k \in InvokedAt(calls[i].call, h) : i < k /\ k < j
                 /\ \A k \in 1..Len(calls) :
                       (calls[k].op = "invoke" /\ calls[k].call = calls[i].call)
                           => calls[k].handler \in calls[i].registered
        /\ calls[i].op = "register" =>
              calls[i].after = calls[i].before \cup {<<calls[i].type, calls[i].handler>>}
        /\ calls[i].op = "unregister" =>
              (<<calls[i].type, calls[i].handler>> \notin calls[i].before
                   => calls[i].after = calls[i].before)

\* a handler registered a second time, a handler unregistered that is not
\* registered, and a generate call in which a handler unregistered another
\* one that was still to be called, and was called
C18_Witness ==
    /\ \E i \in 1..Len(calls) :
          calls[i].op = "register" /\ <<calls[i].type, calls[i].handler>> \in calls[i].before
    /\ \E i \in 1..Len(calls) :
          calls[i].op = "unregister"
              /\ <<calls[i].type, calls[i].handler>> \notin calls[i].before
    /\ \E i \in 1..Len(calls) :
          /\ calls[i].op = "generate" /\ calls[i].type = "FIRE"
          /\ \E u \in InvokedAt(calls[i].call, Unregisters(1)),
                p \in InvokedAt(calls[i].call, Plain(1)) : u < p

(***************************************************************************)
(* utils.timers on its own: start, cancel, clear and update called from    *)
(* outside, with handlers that call utils.timers themselves                *)
(***************************************************************************)
Cancels(id) == Handler("Test", "cancels", id)
Starts(id) == Handler("Test", "starts", id)
SetsState == Handler("Test", "set_state", 0)

TimerHandlers == {Plain(1), Plain(2), Cancels(2), Starts(2), SetsState}

InitTimers ==
    /\ timers = <<>> /\ events = {}
    /\ calls = <<>>
    /\ scen = [made |-> 0, frame |-> 0]
    /\ ents = <<>> /\ paddle = Idle
    /\ cin = Idle /\ cout = Idle /\ cshift = Idle
    /\ proj = <<>> /\ obst = <<>> /\ gpc = Idle /\ hitlog = <<>>

TimersStart ==
    /\ scen.made < MaxTimerCalls
    /\ \E h \in TimerHandlers, delay \in 1..2 :
          LET W == startCall(Dispatch(events, timers, calls), delay, h)
          IN  timers' = W.timers /\ calls' = W.trace
    /\ scen' = [scen EXCEPT !.made = @ + 1]
    /\ UNCHANGED <<ents, paddle, events, colVars, gameVars>>

TimersCancel ==
    /\ scen.made < MaxTimerCalls
    /\ \E h \in {Plain(1), Plain(2)} :
          LET W == cancelCall(Dispatch(events, timers, calls), h)
          IN  timers' = W.timers /\ calls' = W.trace
    /\ scen' = [scen EXCEPT !.made = @ + 1]
    /\ UNCHANGED <<ents, paddle, events, colVars, gameVars>>

TimersClear ==
    /\ scen.made < MaxTimerCalls
    /\ LET W == clearCall(Dispatch(events, timers, calls))
       IN  timers' = W.timers /\ calls' = W.trace
    /\ scen' = [scen EXCEPT !.made = @ + 1]
    /\ UNCHANGED <<ents, paddle, events, colVars, gameVars>>

\* Engine.update: utils.timers.update()
TimersUpdate ==
    /\ scen.frame < MaxTimerFrames
    /\ LET W == timersUpdate(Dispatch(events, timers, calls))
       IN  timers' = W.timers /\ calls' = W.trace
    /\ scen' = [scen EXCEPT !.frame = @ + 1]
    /\ UNCHANGED <<ents, paddle, events, colVars, gameVars>>

NextTimers == TimersStart \/ TimersCancel \/ TimersClear \/ TimersUpdate

SpecTimers == InitTimers /\ [][NextTimers]_vars

\* the calls before place k of the history that start or end the timer of h
Settings(k, h) ==
    {j \in 1..(k - 1) :
        \/ calls[j].op = "clear"
        \/ calls[j].op \in {"start", "cancel"} /\ calls[j].handler = h}

\* C19: after Timers.cancel(h) or Timers.clear() the handler h is not
\* invoked by this or any later Timers.update unless start(h) is called
\* again afterwards, also when the cancel or clear is issued by another
\* timer's handler firing earlier in the same update pass: the last call
\* before an invocation of h that starts or ends the timer of h is a start.
C19_CancelledNotInvoked ==
    \A k \in 1..Len(calls) :
        calls[k].op = "fire" =>
            LET set == Settings(k, calls[k].handler)
            IN  /\ set # {}
                /\ calls[CHOOSE j \in set : \A m \in set : m <= j].op = "start"

\* the scans of projectile p in the frame's pass that found an overlap
HitsOf(log, p) == {n \in 1..Len(log) : log[n].p = p}

\* C21: for each projectile in each frame the slide-retry loop performs at
\* most 3 attempts; it stops at the first attempt in which the projectile
\* overlaps no obstacle of the 'ball' group, and each attempt applies
\* hit/response to exactly one obstacle, so at most 3 obstacle hits are
\* caused by one projectile in one frame.
C21_SlideRetry ==
    [][gpc.phase = "collide" =>
          /\ gpc.attempt < 3
          /\ Cardinality(HitsOf(hitlog', gpc.p)) <= 3
          /\ IF spritecollide(proj[gpc.p]) = <<>>
             THEN /\ hitlog' = hitlog /\ obst' = obst /\ proj' = proj
                  /\ gpc'.phase = "end" \/ gpc'.p > gpc.p
             ELSE /\ Len(hitlog') = Len(hitlog) + 1
                  /\ hitlog'[Len(hitlog')].p = gpc.p
                  /\ hitlog'[Len(hitlog')].attempt = gpc.attempt
                  /\ Cardinality(HitsOf(hitlog', gpc.p)) = gpc.attempt + 1
                  /\ \A n \in 1..Len(obst) :
                        n # hitlog'[Len(hitlog')].closest => obst'[n] = obst[n]
                  /\ obst'[hitlog'[Len(hitlog')].closest]
                        = hit(obst[hitlog'[Len(hitlog')].closest])
                  /\ (gpc'.phase = "collide" /\ gpc'.p = gpc.p)
                        => gpc'.attempt = gpc.attempt + 1]_vars

\* a laser bolt has hit the brick that has no hits entry in all three
\* attempts of a frame, after the ball's loop was ended by an attempt without
\* overlap
C21_Witness ==
    /\ Len(proj) = 2
    /\ Cardinality(HitsOf(hitlog, 2)) = 3
    /\ \A n \in HitsOf(hitlog, 2) : hitlog[n].closest = 2
    /\ Cardinality(HitsOf(hitlog, 1)) \in 1..2
    /\ gpc.phase = "end"

\* the attempts of the frame's projectile pass in which a live projectile
\* with a Move behaviour was reflected
Reflections == {n \in 1..Len(hitlog) : hitlog[n].resolved}

\* the velocity components that attempt n changed
Changed(n) ==
    {k \in 1..2 : hitlog[n].after.delta[k] # hitlog[n].before.delta[k]}

\* attempt n set the component on the side's axis to point away, set the
\* edge flush and left the rest as it was; on side None nothing is changed
Reflected(n) ==
    LET h == hitlog[n]
        v == h.before.delta
        w == h.after.delta
    IN  /\ Abs(w[1]) = Abs(v[1]) /\ Abs(w[2]) = Abs(v[2])
        /\ h.after.rect.w = h.before.rect.w /\ h.after.rect.h = h.before.rect.h
        /\ h.side = COLLISIONSIDE_NONE => h.after = h.before
        /\ h.side # COLLISIONSIDE_NONE => ~colliderect(h.after.rect, h.obstacle)
        /\ h.side = COLLISIONSIDE_TOP =>
              /\ w[2] <= 0 /\ w[1] = v[1] /\ h.after.rect.x = h.before.rect.x
              /\ bottom(h.after.rect) = top(h.obstacle)
        /\ h.side = COLLISIONSIDE_BOTTOM =>
              /\ w[2] >= 0 /\ w[1] = v[1] /\ h.after.rect.x = h.before.rect.x
              /\ top(h.after.rect) = bottom(h.obstacle)
        /\ h.side = COLLISIONSIDE_LEFT =>
              /\ w[1] <= 0 /\ w[2] = v[2] /\ h.after.rect.y = h.before.rect.y
              /\ right(h.after.rect) = left(h.obstacle)
        /\ h.side = COLLISIONSIDE_RIGHT =>
              /\ w[1] >= 0 /\ w[2] = v[2] /\ h.after.rect.y = h.before.rect.y
              /\ left(h.after.rect) = right(h.obstacle)

\* C22: when a live projectile with a Move behaviour is reflected off an
\* obstacle on a resolved side, exactly one velocity component is changed,
\* only in sign, so that it points away from the obstacle (Top: vy <= 0,
\* Bottom: vy >= 0, Left: vx <= 0, Right: vx >= 0); the projectile's edge on
\* that axis is set flush to the obstacle's edge so the two no longer
\* overlap; the other axis' velocity and position and both speed magnitudes
\* are unchanged; and when the side is None neither velocity nor position
\* changes.
C22_Reflection ==
    \A n \in Reflections :
        /\ Reflected(n)
        /\ hitlog[n].side # COLLISIONSIDE_NONE => Cardinality(Changed(n)) = 1

\* C22 as the code has it: the component on the side's axis is made to
\* point away from the obstacle, which changes at most its sign (it is left
\* as it is when it points away already)
C22_ReflectionAway ==
    \A n \in Reflections :
        /\ Reflected(n)
        /\ hitlog[n].side # COLLISIONSIDE_NONE => Cardinality(Changed(n)) <= 1

\* a ball has come down on an alien and its vertical velocity was reversed
C22_Witness ==
    \E n \in Reflections :
        /\ hitlog[n].side = COLLISIONSIDE_TOP
        /\ Changed(n) = {2}
        /\ hitlog[n].before.delta[2] > 0 /\ hitlog[n].after.delta[2] < 0

(***************************************************************************)
(* collision_move_to_edge and collision_side on their own: a ball that     *)
(* overlaps or touches the paddle, each with the rectangle of the frame    *)
(* before                                                                  *)
(***************************************************************************)
\* a sprite at rect that was at rect moved back by its velocity
Moved(rect, velocity) ==
    [GameSprite(rect, NoAction, 0) EXCEPT !.last = move(rect, -velocity[1], -velocity[2])]

\* the one-frame velocities of the paddle (engine.py: kb_speed per frame)
PaddleVelocities == {<<-kb_speed, 0>>, <<0, 0>>, <<kb_speed, 0>>}

InitEdge ==
    /\ \E x \in (36..40) \cup (52..56), y \in 176..184, v \in PaddleVelocities,
          rx \in -MaxVel..MaxVel, ry \in -MaxVel..MaxVel :
          /\ proj = <<Moved(Rect(x, y, 4, 4), <<v[1] + rx, v[2] + ry>>)>>
          /\ obst = <<Moved(Rect(40, 180, 16, 4), v)>>
    /\ cin = [m |-> proj[1], o |-> obst[1]]
    /\ cout = Idle /\ cshift = Idle
    /\ gpc = Idle /\ hitlog = <<>>
    /\ ents = <<>> /\ scen = Idle
    /\ paddle = Idle /\ events = Idle /\ timers = Idle /\ calls = <<>>

\* collision_move_to_edge(ball, paddle): the function assigns to
\* sprite1.rect only
MoveToEdge ==
    /\ calls = <<>>
    /\ proj' = <<collision_move_to_edge(proj[1], obst[1])>>
    /\ calls' = <<"collision_move_to_edge">>
    /\ UNCHANGED <<obst, cin, cout, cshift, gpc, hitlog, ents, scen, paddle,
                   events, timers>>

\* collision_side(ball, paddle) on the pair as it was given
SideAtEdge ==
    /\ calls = <<>> /\ cout = Idle
    /\ cout' = [k |-> "Side", side |-> collision_side(cin.m, cin.o)]
    /\ UNCHANGED <<proj, obst, cin, cshift, gpc, hitlog, ents, scen, paddle,
                   events, timers, calls>>

NextEdge == MoveToEdge \/ SideAtEdge

SpecEdge == InitEdge /\ [][NextEdge]_vars

\* the relative velocity of the call's arguments and the two times
EdgeVel == <<Velocity(cin.m)[1] - Velocity(cin.o)[1],
             Velocity(cin.m)[2] - Velocity(cin.o)[2]>>
EdgeOverlap ==
    <<IF EdgeVel[1] >= 0 THEN right(cin.m.rect) - left(cin.o.rect)
      ELSE left(cin.m.rect) - right(cin.o.rect),
      IF EdgeVel[2] >= 0 THEN bottom(cin.m.rect) - top(cin.o.rect)
      ELSE top(cin.m.rect) - bottom(cin.o.rect)>>
EdgeTime(k) == TimeTo(EdgeOverlap[k], EdgeVel[k])
EdgeSmaller == IF Less(EdgeTime(1), EdgeTime(2)) THEN EdgeTime(1) ELSE EdgeTime(2)

\* -vel * time truncated, without the rounding of double precision
ExactRewind(vel, time) ==
    IF vel # 0 THEN ToIntOver(-vel * time[1], time[2])
    ELSE ToIntOver(-time[1], 100000 * time[2])

\* double precision gives what exact arithmetic gives
ExactArithmetic ==
    \A k \in 1..2 : Rewind(EdgeVel[k], EdgeSmaller) = ExactRewind(EdgeVel[k], EdgeSmaller)

\* the overlap that is left on axis k, in the direction of the velocity
OverlapLeft(k) ==
    IF k = 1
    THEN (IF EdgeVel[1] >= 0 THEN right(proj[1].rect) - left(obst[1].rect)
          ELSE left(proj[1].rect) - right(obst[1].rect))
    ELSE (IF EdgeVel[2] >= 0 THEN bottom(proj[1].rect) - top(obst[1].rect)
          ELSE top(proj[1].rect) - bottom(obst[1].rect))

\* C23: for a ball whose rectangle overlaps the paddle's,
\* collision_move_to_edge moves only the ball, backward along the relative
\* velocity by the smaller of the two per-axis times-to-zero-overlap, and
\* afterwards (in exact arithmetic) the ball's rectangle no longer overlaps
\* the paddle's: the axis with the smaller time ends with exactly zero
\* overlap; the paddle's rectangle and both entities' previous rectangles
\* are unchanged.
C23_MoveToEdge ==
    (calls # <<>> /\ colliderect(cin.m.rect, cin.o.rect)) =>
        /\ obst[1] = cin.o
        /\ proj[1] = [cin.m EXCEPT !.rect = proj[1].rect]
        /\ proj[1].rect.w = cin.m.rect.w /\ proj[1].rect.h = cin.m.rect.h
        /\ ExactArithmetic =>
              /\ proj[1].rect.x = cin.m.rect.x + ExactRewind(EdgeVel[1], EdgeSmaller)
              /\ proj[1].rect.y = cin.m.rect.y + ExactRewind(EdgeVel[2], EdgeSmaller)
              /\ ~colliderect(proj[1].rect, obst[1].rect)
              /\ Less(EdgeTime(1), EdgeTime(2)) => OverlapLeft(1) = 0
              /\ ~Less(EdgeTime(1), EdgeTime(2)) => OverlapLeft(2) = 0

\* a ball that came down on a paddle moving to the right has been moved
\* back on both axes, up to the paddle's top
C23_Witness ==
    /\ calls # <<>>
    /\ Velocity(cin.o) = <<kb_speed, 0>>
    /\ EdgeVel[1] < 0 /\ EdgeVel[2] > 1
    /\ proj[1].rect.x > cin.m.rect.x /\ proj[1].rect.y < cin.m.rect.y
    /\ bottom(proj[1].rect) = top(obst[1].rect)

\* C24: collision_side and collision_move_to_edge are total: for every pair
\* of current/previous rectangles, including zero relative velocity on one
\* or both axes and zero corner distance, they perform no division by zero
\* and raise no error, a zero divisor being replaced by a small non-zero
\* constant rather than the case being skipped.
C24_Total ==
    /\ \A k \in 1..2 :
          /\ EdgeTime(k)[2] > 0
          /\ EdgeVel[k] = 0 => EdgeTime(k) = <<100000 * EdgeOverlap[k], 1>>
    /\ calls # <<>> =>
          /\ proj[1].rect.x \in Int /\ proj[1].rect.y \in Int
          /\ proj[1].rect = move(cin.m.rect, Rewind(EdgeVel[1], EdgeSmaller),
                                 Rewind(EdgeVel[2], EdgeSmaller))
    /\ cout # Idle =>
          /\ cout.side \in {COLLISIONSIDE_NONE, COLLISIONSIDE_TOP, COLLISIONSIDE_BOTTOM,
                            COLLISIONSIDE_LEFT, COLLISIONSIDE_RIGHT}
          /\ ((WasLeft \/ WasRight) /\ (WasAbove \/ WasBelow)
                  /\ (RelativeVelocity[1] = 0 \/ GapX = 0)) =>
                /\ VelocitySlope[2] > 0 /\ CornerSlope[2] > 0
                /\ cout.side =
                      IF WasAbove
                      THEN (IF WasLeft
                            THEN (IF Below(VelocitySlope, CornerSlope)
                                  THEN COLLISIONSIDE_TOP ELSE COLLISIONSIDE_LEFT)
                            ELSE (IF Below(CornerSlope, VelocitySlope)
                                  THEN COLLISIONSIDE_TOP ELSE COLLISIONSIDE_RIGHT))
                      ELSE (IF WasLeft
                            THEN (IF Below(CornerSlope, VelocitySlope)
                                  THEN COLLISIONSIDE_BOTTOM ELSE COLLISIONSIDE_LEFT)
                            ELSE (IF Below(VelocitySlope, CornerSlope)
                                  THEN COLLISIONSIDE_BOTTOM ELSE COLLISIONSIDE_RIGHT))

\* a ball at rest against the paddle's top left corner, corner to corner:
\* every divisor is zero, the side is Left and the ball stays where it is
C24_Witness ==
    /\ cout # Idle /\ calls # <<>>
    /\ RelativeVelocity = <<0, 0>>
    /\ WasLeft /\ WasAbove /\ GapX = 0 /\ GapY = 0
    /\ cout.side = COLLISIONSIDE_LEFT
    /\ proj[1].rect = cin.m.rect

\* a ball falling straight down past the paddle's top left corner: the
\* zero run of the velocity makes the slope 2000 and the side Left
C24_WitnessZeroRun ==
    /\ cout # Idle
    /\ RelativeVelocity = <<0, 2>>
    /\ WasLeft /\ WasAbove /\ GapX = 0 /\ GapY = 1
    /\ cout.side = COLLISIONSIDE_LEFT

\* C25: in the unambiguous cases collision_side ignores the velocity: if
\* the mover's adjusted previous rectangle is entirely left of the obstacle
\* (right edge <= obstacle left) and neither entirely above nor entirely
\* below it, the result is Left; symmetrically Right; if it is neither
\* entirely left nor entirely right, the result is Top when it is entirely
\* above and Bottom when it is entirely below.
C25_Unambiguous ==
    cout # Idle =>
        /\ (WasLeft /\ ~WasAbove /\ ~WasBelow) => cout.side = COLLISIONSIDE_LEFT
        /\ (~WasLeft /\ WasRight /\ ~WasAbove /\ ~WasBelow) =>
              cout.side = COLLISIONSIDE_RIGHT
        /\ (~WasLeft /\ ~WasRight /\ WasAbove) => cout.side = COLLISIONSIDE_TOP
        /\ (~WasLeft /\ ~WasRight /\ ~WasAbove /\ WasBelow) =>
              cout.side = COLLISIONSIDE_BOTTOM

\* a mover that was beside the obstacle, to its left, and moved away from it
\* and upwards: the side is Left all the same
C25_Witness ==
    /\ cout # Idle
    /\ WasLeft /\ ~WasAbove /\ ~WasBelow
    /\ RelativeVelocity = <<-MaxVel, -MaxVel>>
    /\ GapX = MaxGap
    /\ cout.side = COLLISIONSIDE_LEFT

(***************************************************************************)
(* Sprite.hit on its own: a sprite of the groups 'ball' and 'bricks' that  *)
(* is hit again and again; calls keeps what each call did                  *)
(***************************************************************************)
\* the events that a hit which brings the counter to zero generates with
\* every hit
HitGeneratesOnEveryHit(s, after) ==
    (IF s.cfg.hit_points # 0
     THEN <<[type |-> "POINTS", points |-> s.cfg.hit_points]>> ELSE <<>>)
    \o (IF s.cfg.hits # 0 /\ s.cfg.on_death = "create_capsule"
        THEN <<[type |-> "CAPSULE", position |-> <<after.rect.x, after.rect.y>>]>>
        ELSE <<>>)
    \o (IF s.cfg.hits # 0 /\ s.cfg.points # 0
        THEN <<[type |-> "POINTS", points |-> s.cfg.points]>> ELSE <<>>)

\* utils.events.generate as called by Sprite.hit on sprite s, in order;
\* after is the sprite when the call returns
HitGenerates(s, after) ==
    (IF s.cfg.hit_points # 0
     THEN <<[type |-> "POINTS", points |-> s.cfg.hit_points]>> ELSE <<>>)
    \o (IF s.cfg.hits # 0 /\ s.cfg.hits - 1 = 0 /\ s.cfg.on_death = "create_capsule"
        THEN <<[type |-> "CAPSULE", position |-> <<after.rect.x, after.rect.y>>]>>
        ELSE <<>>)
    \o (IF s.cfg.hits # 0 /\ s.cfg.hits - 1 = 0 /\ s.cfg.points # 0
        THEN <<[type |-> "POINTS", points |-> s.cfg.points]>> ELSE <<>>)

\* a brick's cfg; 0 and "" stand for entries that cfg does not have
BrickCfg(hits, points, on_death, hit_points, death_animation) ==
    [hits |-> hits, paddle_bounce |-> FALSE, animation |-> "", hit_animation |-> "",
     death_animation |-> death_animation, points |-> points, on_death |-> on_death,
     hit_points |-> hit_points]

InitHit ==
    /\ \E hits \in 0..MaxHits, points \in {0, 50}, on_death \in {"", "create_capsule"},
          hit_points \in {0, 10}, death_animation \in {"", "dead"} :
          ents = <<SceneSprite(1, Rect(16, 8, 8, 8), {"all", "ball", "bricks"},
                               BrickCfg(hits, points, on_death, hit_points,
                                        death_animation))>>
    /\ paddle = Idle /\ events = {} /\ timers = <<>>
    /\ calls = <<>>
    /\ scen = Idle
    /\ cin = Idle /\ cout = Idle /\ cshift = Idle
    /\ proj = <<>> /\ obst = <<>> /\ gpc = Idle /\ hitlog = <<>>

\* sprite.hit(scene)
HitCall ==
    /\ Len(calls) < MaxHitCalls
    /\ Becomes(SpriteHit(World(ents, paddle, events, timers), 1))
    /\ calls' = Append(calls, [before |-> ents[1], after |-> ents'[1],
                               generated |-> HitGenerates(ents[1], ents'[1])])
    /\ UNCHANGED <<scen, colVars, gameVars>>

NextHit == HitCall

SpecHit == InitHit /\ [][NextHit]_vars

\* the call left the sprite in no group but 'all' (kill, and the death
\* animation's return to 'all')
Killed(c) == c.before.groups # c.after.groups /\ c.after.groups \subseteq {"all"}

\* the death events among those a call generated
DeathEvents(c) ==
    {n \in 1..Len(c.generated) :
        \/ c.generated[n].type = "CAPSULE"
        \/ c.generated[n].type = "POINTS" /\ c.generated[n].points = c.before.cfg.points}

\* C26: Sprite.hit decrements an entity's integer 'hits' counter by exactly
\* one per call while the counter is positive, kills the entity on exactly
\* the call that brings the counter to zero, generates its death points and
\* its capsule event exactly once (on that call), and never drives the
\* counter below zero; an entity without a 'hits' entry is never killed by
\* hit.
C26_HitCounter ==
    \A n \in 1..Len(calls) :
        LET c == calls[n]
            hits == c.before.cfg.hits
        IN  /\ hits > 0 => c.after.cfg.hits = hits - 1
            /\ hits = 0 => c.after.cfg.hits = 0
            /\ c.after.cfg.hits >= 0
            /\ Killed(c) <=> hits = 1
            /\ hits # 1 => (DeathEvents(c) = {} /\ c.after.groups = c.before.groups)
            /\ hits = 1 =>
                  /\ Cardinality({m \in DeathEvents(c) : c.generated[m].type = "CAPSULE"})
                        = (IF c.before.cfg.on_death = "create_capsule" THEN 1 ELSE 0)
                  /\ Cardinality({m \in DeathEvents(c) : c.generated[m].type = "POINTS"})
                        = (IF c.before.cfg.points # 0 THEN 1 ELSE 0)
                  /\ \A m \in 1..Len(calls) : m # n => DeathEvents(calls[m]) = {}
            /\ calls[1].before.cfg.hits = 0 => ~Killed(c)

\* a brick of two hits with points and a capsule was hit four times: the
\* second hit killed it and generated both events, the others none
C26_Witness ==
    /\ Len(calls) = MaxHitCalls
    /\ calls[1].before.cfg.hits = 2
    /\ calls[1].before.cfg.points = 50 /\ calls[1].before.cfg.on_death = "create_capsule"
    /\ Killed(calls[2]) /\ Cardinality(DeathEvents(calls[2])) = 2
    /\ \A n \in {1, 3, 4} : ~Killed(calls[n]) /\ DeathEvents(calls[n]) = {}
    /\ ents[1].cfg.hits = 0

(***************************************************************************)
(* A FireEvent or a Callback on its own: update, start and stop are called *)
(* on the one object in any order; scen keeps the object as it was made,   *)
(* as it is now and what its updates returned                              *)
(***************************************************************************)
OnceObjects ==
    {FireEvent(101, "EXTRA_LIFE", <<>>), FireEvent(101, "POINTS", <<100>>),
     Callback(101, "FIRE", Handler("Paddle", "fire_laser", 0))}

InitOnce ==
    /\ \E b \in OnceObjects : scen = [made |-> b, b |-> b, rets |-> <<>>]
    /\ ents = <<Entity(1, Rect(40, 180, 16, 4), <<>>)>>
    /\ paddle = Idle /\ events = Idle /\ timers = Idle /\ calls = <<>>
    /\ cin = Idle /\ cout = Idle /\ cshift = Idle
    /\ proj = <<>> /\ obst = <<>> /\ gpc = Idle /\ hitlog = <<>>

OnceCalled == Len(ents[1].log) < MaxOnceCalls

\* action.update(sprite)
OnceUpdate ==
    /\ OnceCalled
    /\ LET Returned(r) ==
               /\ scen' = [scen EXCEPT !.b = r.me, !.rets = Append(@, r.ret)]
               /\ ents' = <<r.s>>
       IN  Returned(update(scen.b, ents[1]))
    /\ UNCHANGED <<colVars, gameVars, sysVars>>

\* action.start(sprite)
OnceStart ==
    /\ OnceCalled
    /\ ents' = <<start(scen.b, ents[1])>>
    /\ UNCHANGED <<scen, colVars, gameVars, sysVars>>

\* action.stop(sprite)
OnceStop ==
    /\ OnceCalled
    /\ ents' = <<stop(scen.b, ents[1])>>
    /\ UNCHANGED <<scen, colVars, gameVars, sysVars>>

NextOnce == OnceUpdate \/ OnceStart \/ OnceStop

SpecOnce == InitOnce /\ [][NextOnce]_vars

\* what the object does when it acts, as it was bound when it was made
OnceEffect ==
    IF scen.made.k = "FireEvent"
    THEN [op |-> "generate", type |-> scen.made.event, kwargs |-> scen.made.kwargs]
    ELSE [op |-> "register", eventtype |-> scen.made.eventtype,
          handler |-> scen.made.handler]

\* C27: a FireEvent generates its event, and a Callback invokes its function
\* with the bound arguments, exactly once - during the first update call,
\* which returns none; any further update call on the same instance
\* performs no action and returns none, and start and stop have no effect.
C27_Once ==
    /\ ents[1].fx = IF scen.rets = <<>> THEN <<>> ELSE <<OnceEffect>>
    /\ \A n \in 1..Len(scen.rets) : IsNone(scen.rets[n])
    /\ ents[1] = [Entity(1, Rect(40, 180, 16, 4), <<>>)
                     EXCEPT !.fx = ents[1].fx, !.log = ents[1].log]
    /\ scen.b = IF scen.rets = <<>> THEN scen.made
                ELSE IF scen.made.k = "FireEvent" THEN [scen.made EXCEPT !.event = ""]
                ELSE [scen.made EXCEPT !.callback = ""]

\* a Callback was started, updated, stopped and updated twice more: one
\* registration was asked for, by the first update
C27_Witness ==
    /\ scen.made.k = "Callback"
    /\ [n \in 1..Len(ents[1].log) |-> ents[1].log[n].op]
          = <<"start", "update", "stop", "update", "update">>
    /\ Len(scen.rets) = 3
    /\ ents[1].fx = <<OnceEffect>>

(***************************************************************************)
(* An Animate on its own, updated for as long as it returns itself; scen   *)
(* keeps the object as it is now and, for each update, the image the       *)
(* sprite showed when the call returned and what the call returned         *)
(***************************************************************************)
\* image k of the animations is 8 + 2k wide, the sprite starts 4 wide
AnimImages(L) == [k \in 1..L |-> <<8 + 2 * k, 8>>]
AnimShown(rect) == (rect.w - 8) \div 2
MaxAnimUpdates == MaxImages * MaxSpeed + 2

InitAnim ==
    /\ \E L \in 1..MaxImages, speed \in 1..MaxSpeed, loop \in BOOLEAN :
          scen = [b |-> Animate(101, AnimImages(L), speed, loop), hist |-> <<>>]
    /\ ents = <<Entity(1, Rect(40, 180, 4, 4), <<>>)>>
    /\ paddle = Idle /\ events = Idle /\ timers = Idle /\ calls = <<>>
    /\ cin = Idle /\ cout = Idle /\ cshift = Idle
    /\ proj = <<>> /\ obst = <<>> /\ gpc = Idle /\ hitlog = <<>>

\* action.update(sprite), while the behaviour is active
AnimUpdate ==
    /\ Len(scen.hist) < MaxAnimUpdates
    /\ IF scen.hist = <<>> THEN TRUE ELSE ~scen.hist[Len(scen.hist)].done
    /\ LET Returned(r) ==
               /\ scen' = [b |-> r.me,
                           hist |-> Append(scen.hist,
                                           [shown |-> AnimShown(r.s.rect),
                                            installed |-> r.s.rect # ents[1].rect,
                                            index |-> scen.b.frame,
                                            done |-> IsNone(r.ret),
                                            self |-> r.ret = r.me])]
               /\ ents' = <<r.s>>
       IN  Returned(update(scen.b, ents[1]))
    /\ UNCHANGED <<colVars, gameVars, sysVars>>

NextAnim == AnimUpdate

SpecAnim == InitAnim /\ [][NextAnim]_vars

AnimLen == Len(scen.b.images)
\* the image that is on show during update u (from 1), the animation
\* running on
AnimImageAt(u) == (((u - 1) \div scen.b.speed) % AnimLen) + 1

\* C28: a non-looping Animate with L >= 1 images and speed s >= 1 frames per
\* image installs image k on update (k-1)*s+1, returns itself on updates
\* 1..L*s-1 and none on update L*s; a looping Animate restarts at image 0
\* and never returns none; in both cases every image index used while the
\* behaviour is active is less than L, so update never raises an index
\* error.
C28_AnimateTiming ==
    \A u \in 1..Len(scen.hist) :
        LET h == scen.hist[u]
        IN  /\ h.index < AnimLen
            /\ h.shown = AnimImageAt(u)
            /\ (AnimLen > 1 \/ u = 1) =>
                  (h.installed <=> (u - 1) % scen.b.speed = 0)
            /\ scen.b.loop => (h.self /\ ~h.done)
            /\ ~scen.b.loop =>
                  /\ u <= AnimLen * scen.b.speed
                  /\ u < AnimLen * scen.b.speed => (h.self /\ ~h.done)
                  /\ u = AnimLen * scen.b.speed => h.done
                  /\ \A k \in 1..AnimLen :
                        u = (k - 1) * scen.b.speed + 1 => (h.installed /\ h.shown = k)

\* three images at two updates each, not looping: the sixth update returned
\* none, the third image was installed by the fifth
C28_Witness ==
    /\ ~scen.b.loop /\ AnimLen = 3 /\ scen.b.speed = 2
    /\ Len(scen.hist) = 6
    /\ scen.hist[6].done
    /\ scen.hist[5].installed /\ scen.hist[5].shown = 3
    /\ ~scen.hist[4].installed /\ scen.hist[4].shown = 2

\* three images at two updates each, looping: the seventh update installed
\* the first image again
C28_WitnessLoop ==
    /\ scen.b.loop /\ AnimLen = 3 /\ scen.b.speed = 2
    /\ Len(scen.hist) = 7
    /\ scen.hist[7].installed /\ scen.hist[7].shown = 1 /\ scen.hist[7].index = 0

(***************************************************************************)
(* A Follow on its own: a target that moves by its Move, and a sprite that *)
(* is given a Follow of the target and later has it taken away; scen keeps *)
(* the order of the group, the offset when the Follow was made and the     *)
(* follower's rectangle when the Follow was stopped                        *)
(***************************************************************************)
Target == 1
Follower == 2

FollowScene(delta, x) ==
    LET target == Entity(Target, Rect(40, 180, 16, 4), <<>>)
    IN  <<set_action(Made(target), NoAction, Move(target.nextid, delta)),
          Entity(Follower, Rect(x, 176, 4, 4), <<>>)>>

InitFollow ==
    /\ \E dx \in {-6, 0, 3, 5}, dy \in {-2, 0}, x \in {40, 47} :
          ents = FollowScene(<<dx, dy>>, x)
    /\ \E order \in {<<Target, Follower>>, <<Follower, Target>>} :
          scen = [order |-> order, frames |-> 0, phase |-> "free",
                  offset |-> <<0, 0>>, id |-> 0, frozen |-> Rect(0, 0, 0, 0),
                  after |-> 0]
    /\ paddle = Idle /\ events = Idle /\ timers = Idle /\ calls = <<>>
    /\ cin = Idle /\ cout = Idle /\ cshift = Idle
    /\ proj = <<>> /\ obst = <<>> /\ gpc = Idle /\ hitlog = <<>>

\* the follower's centre less the target's
CentreOffset(w) ==
    <<centerx(w[Follower].rect) - centerx(w[Target].rect),
      centery(w[Follower].rect) - centery(w[Target].rect)>>

\* follower.set_action(Follow(target))
FollowAttach ==
    /\ scen.phase = "free"
    /\ ents' = Settle(ents, Follower,
                      set_action(Made(ents[Follower]), ents[Follower].action,
                                 Follow(ents[Follower].nextid, Target,
                                        center(ents[Target].rect))))
    /\ scen' = [scen EXCEPT !.phase = "following", !.offset = CentreOffset(ents),
                            !.id = ents[Follower].nextid]
    /\ UNCHANGED <<colVars, gameVars, sysVars>>

\* group.update(): every sprite of the scene, in the order of the group
FollowFrame ==
    /\ scen.frames < MaxFollowFrames
    /\ ents' = UpdateGroup(ents, scen.order)
    /\ scen' = [scen EXCEPT !.frames = @ + 1,
                            !.after = IF scen.phase = "stopped" THEN @ + 1 ELSE @]
    /\ UNCHANGED <<colVars, gameVars, sysVars>>

\* follower.set_action(None): Follow.stop
FollowDetach ==
    /\ scen.phase = "following"
    /\ ents' = Settle(ents, Follower,
                      set_action(ents[Follower], ents[Follower].action, NoAction))
    /\ scen' = [scen EXCEPT !.phase = "stopped", !.frozen = ents[Follower].rect]
    /\ UNCHANGED <<colVars, gameVars, sysVars>>

NextFollow == FollowAttach \/ FollowFrame \/ FollowDetach

SpecFollow == InitFollow /\ [][NextFollow]_vars

\* C29: while a Follow behaviour is attached and nothing else moves the
\* follower, after every update of the target the follower's centre offset
\* from the target's centre equals the offset at the time the Follow was
\* constructed; Follow.update never finishes; and after stop the follower's
\* callback is no longer in the target's subscriber set, so later target
\* updates do not move the follower.
C29_Follow ==
    /\ scen.phase = "following" =>
          /\ CentreOffset(ents) = scen.offset
          /\ ents[Follower].action.k = "Follow" /\ ents[Follower].action.id = scen.id
          /\ [sprite |-> Follower, id |-> scen.id] \in ents[Target].callbacks
    /\ scen.phase = "stopped" =>
          /\ [sprite |-> Follower, id |-> scen.id] \notin ents[Target].callbacks
          /\ ents[Follower].rect = scen.frozen
          /\ IsNone(ents[Follower].action)

\* the follower, updated before its target, followed it for two frames, was
\* let go and stayed behind for two more
C29_Witness ==
    /\ scen.phase = "stopped" /\ scen.order = <<Follower, Target>>
    /\ scen.frames = 4 /\ scen.after = 2
    /\ ents[Target].rect = Rect(45, 178, 16, 4)
    /\ ents[Follower].rect = Rect(42, 175, 4, 4)

(***************************************************************************)
(* Timers.start and Timers.update on their own: timers are started for     *)
(* handlers that have none pending, from outside and by handlers that      *)
(* fire; each update leaves a mark in the history                          *)
(***************************************************************************)
\* GameState.on_timer: the handler starts its own timer again
Restarts == Handler("Test", "restarts", 0)

AlarmHandlers == {Plain(1), Restarts, Starts(1)}

InitAlarm ==
    /\ timers = <<>> /\ events = {}
    /\ calls = <<>>
    /\ scen = [made |-> 0, frame |-> 0]
    /\ ents = <<>> /\ paddle = Idle
    /\ cin = Idle /\ cout = Idle /\ cshift = Idle
    /\ proj = <<>> /\ obst = <<>> /\ gpc = Idle /\ hitlog = <<>>

\* utils.timers.start(delay, h) for a handler that has no timer pending
AlarmStart ==
    /\ scen.made < MaxAlarmStarts
    /\ \E h \in AlarmHandlers, delay \in 0..2 :
          /\ \A n \in 1..Len(timers) : timers[n].handler # h
          /\ LET Started(W) == timers' = W.timers /\ calls' = W.trace
             IN  Started(startCall(Dispatch(events, timers, calls), delay, h))
    /\ scen' = [scen EXCEPT !.made = @ + 1]
    /\ UNCHANGED <<ents, paddle, events, colVars, gameVars>>

\* Engine.update: utils.timers.update()
AlarmUpdate ==
    /\ scen.frame < MaxAlarmFrames
    /\ LET Passed(W) == timers' = W.timers /\ calls' = W.trace
       IN  Passed(timersUpdate(Dispatch(events, timers,
                                        Append(calls, [op |-> "update"]))))
    /\ scen' = [scen EXCEPT !.frame = @ + 1]
    /\ UNCHANGED <<ents, paddle, events, colVars, gameVars>>

NextAlarm == AlarmStart \/ AlarmUpdate

SpecAlarm == InitAlarm /\ [][NextAlarm]_vars

\* the places of the history after place j where an update begins
UpdatesAfter(j) == {m \in (j + 1)..Len(calls) : calls[m].op = "update"}
\* the place where the k-th update after place j begins (0: not yet)
RECURSIVE UpdateAfter(_, _)
UpdateAfter(j, k) ==
    IF UpdatesAfter(j) = {} THEN 0
    ELSE LET m == CHOOSE m \in UpdatesAfter(j) : \A n \in UpdatesAfter(j) : m <= n
         IN  IF k = 1 THEN m ELSE UpdateAfter(m, k - 1)
\* where the update that begins at place m ends
UpdateEnd(m) ==
    IF UpdatesAfter(m) = {} THEN Len(calls)
    ELSE (CHOOSE e \in UpdatesAfter(m) : \A n \in UpdatesAfter(m) : e <= n) - 1
\* the invocations of h at the places lo..hi
FiresIn(h, lo, hi) == {m \in lo..hi : calls[m].op = "fire" /\ calls[m].handler = h}
\* max(1, int(delay * frame_rate))
DueAfter(delay) == IF delay * frame_rate < 1 THEN 1 ELSE delay * frame_rate

\* C30: a timer started with Timers.start(d, h, args) while no timer for h
\* is pending invokes h with args exactly once, on the k-th subsequent
\* Timers.update where k = max(1, int(d * frame_rate)), and the timer entry
\* is removed before h runs, so that h may start itself again and the new
\* timer is first decremented in the following update.
\* (a timer that is not started, cancelled or cleared before its k-th update
\* begins fires in that update, once, and not before; the start that a
\* firing handler makes for itself finds no timer pending)
C30_TimerFires ==
    /\ \A j \in 1..Len(calls) :
          (calls[j].op = "start" /\ ~calls[j].pending) =>
              LET h == calls[j].handler
                  at == UpdateAfter(j, DueAfter(calls[j].delay))
              IN  /\ (at = 0 /\ Settings(Len(calls) + 1, h) \subseteq 1..j) =>
                        FiresIn(h, j, Len(calls)) = {}
                  /\ (at # 0 /\ Settings(at, h) \subseteq 1..j) =>
                        /\ FiresIn(h, j, at) = {}
                        /\ Cardinality(FiresIn(h, at, UpdateEnd(at))) = 1
    /\ \A j \in 1..Len(calls) :
          (calls[j] = [op |-> "fire", handler |-> Restarts]) =>
              /\ j < Len(calls)
              /\ calls[j + 1] = [op |-> "start", handler |-> Restarts, delay |-> 1,
                                 pending |-> FALSE]

\* a handler that starts itself again was started with delay 0: it fired in
\* the first update and, started again from inside it with delay 1, in the
\* third (frame_rate updates later), not in the second
C30_Witness ==
    /\ Len(calls) >= 7
    /\ calls[1] = [op |-> "start", handler |-> Restarts, delay |-> 0, pending |-> FALSE]
    /\ calls[2].op = "update"
    /\ calls[3] = [op |-> "fire", handler |-> Restarts]
    /\ calls[4] = [op |-> "start", handler |-> Restarts, delay |-> 1, pending |-> FALSE]
    /\ UpdateAfter(4, frame_rate) # 0
    /\ FiresIn(Restarts, 5, UpdateAfter(4, frame_rate)) = {}
    /\ Cardinality(FiresIn(Restarts, UpdateAfter(4, frame_rate),
                           UpdateEnd(UpdateAfter(4, frame_rate)))) = 1

(***************************************************************************)
(* The FIRE registration of Paddle.fire_laser against the paddle's mode    *)
(***************************************************************************)
\* C31: the laser fire handler is registered for FIRE events only while the
\* paddle mode is Laser: after any sequence of capsule mode events
\* interleaved with frame updates, a FIRE event generated while the mode is
\* Normal or Expanded spawns no laser bolt, also when the mode has left
\* Laser before the paddle_to_laser animation finished and its Callback ran.
C31_FireOnlyInLaser ==
    [][(scen'.fired = scen.fired + 1 /\ paddle.handler \in {"normal", "expanded"})
          => Len(ents') = Len(ents)]_vars

\* C32: within one frame a given obstacle receives at most one hit from a
\* given projectile: after an obstacle has been hit in one slide-retry
\* attempt, the same projectile does not hit that obstacle again in a later
\* attempt of the same frame, whatever side (including None) was resolved.
\* (hitlog holds the attempts of the frame that hit an obstacle.)
C32_OneHitPerFrame ==
    \A n \in 1..Len(hitlog) : \A m \in (n + 1)..Len(hitlog) :
        hitlog[n].p = hitlog[m].p => hitlog[n].closest # hitlog[m].closest

(***************************************************************************)
(* The caught ball: Paddle.catch_ball and Paddle.release_ball              *)
(***************************************************************************)
\* the velocities of hit_ball's table, in tenths
BounceTable ==
    {<<-20, 10>>, <<-20, -10>>, <<-16, -16>>, <<-10, -20>>,
     <<10, -20>>, <<16, -16>>, <<20, 10>>, <<20, -10>>}
FromBounceTable(action, ball_speed) ==
    /\ action.k = "Move" /\ "den" \in DOMAIN action /\ action.den = 100
    /\ \E v \in BounceTable : action.delta = <<v[1] * ball_speed, v[2] * ball_speed>>

\* ball b is free: not stuck, not subscribed to the paddle sprite, moving
\* with a velocity of the table, release_ball neither registered for FIRE
\* nor pending as a timer
ReleasedBall(b) ==
    /\ paddle.stuck_ball = 0
    /\ \A c \in ents[PaddleSprite].callbacks : c.sprite # b
    /\ FromBounceTable(ents[b].action, paddle.ball_speed)
    /\ release_ballHandler \notin handlersOf(events, "FIRE")
    /\ \A n \in 1..Len(timers) : timers[n].handler # release_ballHandler

\* C33: a ball caught by Paddle.catch_ball is released - unsubscribed from
\* the paddle and given a Move with a bounce-table velocity, the release
\* handler unregistered from FIRE and the release timer cancelled - no later
\* than the int(3 * frame_rate)-th Timers.update after the catch, or at the
\* first FIRE event if that comes earlier, as long as the game stays in
\* GameState.  (The ball is caught when the game begins; the paddle sprite's
\* frame counts the updates since; scen.inputs = 1 after a FIRE event.)
C33_CaughtBallReleased ==
    scen.state = "GameState" =>
        /\ ents[PaddleSprite].frame >= 3 * frame_rate => \A b \in BallSprites : ReleasedBall(b)
        /\ scen.inputs = 1 => \A b \in BallSprites : ReleasedBall(b)
        /\ \A b \in BallSprites :
              ReleasedBall(b) \/ (paddle.stuck_ball = b /\ ents[b].action.k = "Follow")

\* the timer has released the ball: the Follow was updated in every frame
\* before the int(3 * frame_rate)-th, the Move in that frame
C33_Witness ==
    /\ scen.state = "GameState"
    /\ ents[PaddleSprite].frame = 3 * frame_rate
    /\ ReleasedBall(2)
    /\ Len(Calls(ents[2].log, "update", 201)) = 3 * frame_rate - 1
    /\ Len(Calls(ents[2].log, "update", 202)) = 1

\* FIRE has released the ball before the timer was due
C33_WitnessFire ==
    /\ scen.state = "GameState" /\ scen.inputs = 1
    /\ ents[PaddleSprite].frame = 2
    /\ ReleasedBall(2)
    /\ Len(Calls(ents[2].log, "update", 202)) = 0

(***************************************************************************)
(* Paddle.hit on its own: a ball that overlaps the paddle, in either catch *)
(* mode, with no ball stuck, with this ball stuck or with another one      *)
(***************************************************************************)
\* the paddle, the striking ball 2 with its Move and a second ball 3 that
\* sits on the paddle
StrikeScene(x, y, velocity) ==
    LET sprite == Entity(PaddleSprite, Rect(40, 180, 16, 4), <<>>)
        ball == Entity(2, Rect(x, y, 4, 4), <<>>)
        other == Entity(3, Rect(50, 176, 4, 4), <<>>)
    IN  World(<<set_action(Made(sprite), NoAction, PaddleMove(sprite.nextid, playspace)),
                set_action(Made(ball), NoAction, Move(ball.nextid, velocity)),
                set_action(Made(other), NoAction, Move(other.nextid, <<0, 0>>))>>,
              [handler |-> "normal", catch |-> FALSE, stuck_ball |-> 0, ball_speed |-> 10],
              {<<"PADDLEMOVE", on_paddlemoveHandler(sprite.nextid)>>},
              <<>>)

InitStrike ==
    /\ \E x \in 37..55, y \in 177..179, vx \in {-1, 0, 1}, stuck \in {0, 2, 3},
          catch \in BOOLEAN :
          LET Begun(W) ==
                  /\ ents = W.ents /\ events = W.events /\ timers = W.timers
                  /\ paddle = [W.paddle EXCEPT !.catch = catch]
                  /\ scen = [incoming |-> W.ents[2].action]
              Stuck(W) == IF stuck = 0 THEN W ELSE catch_ball(W, stuck)
          IN  Begun(Stuck(StrikeScene(x, y, <<vx * Den, 2 * Den>>)))
    /\ calls = <<>>
    /\ cin = Idle /\ cout = Idle /\ cshift = Idle
    /\ proj = <<>> /\ obst = <<>> /\ gpc = Idle /\ hitlog = <<>>

\* self.paddle.hit(sprite) for the ball found by spritecollide
Strike ==
    /\ calls = <<>>
    /\ colliderect(ents[PaddleSprite].rect, ents[2].rect)
    /\ Becomes(paddle_hit(World(ents, paddle, events, timers), 2))
    /\ calls' = <<[op |-> "hit", catch |-> paddle.catch, stuck_ball |-> paddle.stuck_ball]>>
    /\ UNCHANGED <<scen, colVars, gameVars>>

NextStrike == Strike

SpecStrike == InitStrike /\ [][NextStrike]_vars

InitReach ==
    /\ \E x \in {0, 42, 84} :
          LET sprite == SceneSprite(PaddleSprite, Rect(x, 180, 16, 4), {"all"},
                                    Cfg(0, FALSE, "", ""))
          IN  ents = <<set_action(Made(sprite), NoAction,
                                  PaddleMove(sprite.nextid, playspace))>>
    /\ paddle = [handler |-> "normal", catch |-> FALSE, stuck_ball |-> 0,
                 ball_speed |-> 10, raised |-> FALSE]
    /\ events = {<<"PADDLEMOVE", on_paddlemoveHandler(101)>>}
    /\ timers = <<>>
    /\ calls = <<>>
    /\ scen = [advanced |-> FALSE]
    /\ cin = Idle /\ cout = Idle /\ cshift = Idle
    /\ proj = <<>> /\ obst = <<>> /\ gpc = Idle /\ hitlog = <<>>

\* Capsules.apply between two frames: the paddle's handler gets the effect
ReachEvent ==
    /\ Len(calls) < MaxReachEvents
    /\ \E event \in {"normal", "expand", "laser"} :
          /\ Becomes(handler(World(ents, paddle, events, timers), event))
          /\ calls' = Append(calls, [mode |-> paddle.handler, event |-> event])
    /\ scen' = [advanced |-> FALSE]
    /\ UNCHANGED <<colVars, gameVars>>

\* keyboard_input and the update of group "all"
ReachFrame ==
    /\ ents[PaddleSprite].frame < MaxModeFrames
    /\ \E direction \in {-1, 0, 1} :
          LET Advanced(W) == Becomes(UpdateWorld(W, GroupSprites(W.ents, "all")))
          IN  Advanced(generate(World(ents, paddle, events, timers),
                                [type |-> "PADDLEMOVE", delta |-> kb_speed * direction]))
    /\ scen' = [advanced |-> TRUE]
    /\ UNCHANGED <<calls, colVars, gameVars>>

NextReach == ReachEvent \/ ReachFrame

SpecReach == InitReach /\ [][NextReach]_vars

\* C35: at the end of every behaviour-advance phase the paddle's rectangle
\* lies entirely within the playspace region given to PaddleMove (the paddle
\* is never wider than the region), for every sequence of PADDLEMOVE events
\* and also in frames where a grow, shrink or laser animation runs
\* concurrently with the PaddleMove and changes the paddle's size.
C35_PaddleInPlayspace ==
    scen.advanced =>
        /\ left(playspace) <= left(ents[PaddleSprite].rect)
        /\ right(ents[PaddleSprite].rect) <= right(playspace)

(***************************************************************************)
(* The end of GameState.update: a ball about to leave the playspace while  *)
(* a laser bolt is on its way to the last brick                            *)
(***************************************************************************)
\* the bolt that fire_laser made some frames ago, now at height y
Bolt(name, x, y) ==
    LET sprite == SceneSprite(name, Rect(x, y, 2, 6), {"all", "lasers"},
                              Cfg(1, FALSE, "", ""))
    IN  set_action(Made(sprite), NoAction, Move(sprite.nextid, <<0, -4 * Den>>))

InitFinish ==
    /\ \E x \in {20, 60, 90}, y \in {193, 195, 197}, vx \in {-1, 0, 1},
          bolts \in {<<>>, <<Bolt(5, 11, 22)>>, <<Bolt(5, 11, 26)>>, <<Bolt(5, 11, 30)>>} :
          ents = SceneOf(Rect(x, y, 4, 4), <<vx * Den, 2 * Den>>, NoAction) \o bolts
    /\ paddle = [handler |-> "laser", catch |-> FALSE, stuck_ball |-> 0, ball_speed |-> 10]
    /\ events = {<<"PADDLEMOVE", on_paddlemoveHandler(101)>>}
    /\ timers = <<>>
    /\ gpc = [phase |-> "update", frame |-> 0]
    /\ scen = [state |-> "GameState", set_state |-> <<>>]
    /\ calls = <<>>
    /\ cin = Idle /\ cout = Idle /\ cshift = Idle
    /\ proj = <<>> /\ obst = <<>> /\ hitlog = <<>>

SpecFinish == InitFinish /\ [][NextScene]_vars

\* C36: during a single GameState.update at most one engine state
\* transition (Engine.set_state) is performed; in particular a transition to
\* DeathState made in a frame is not replaced by a transition to ClearState
\* or BreakState later in the same frame.  (scen.set_state holds the
\* transitions of the last update.)
C36_OneTransition ==
    Len(scen.set_state) <= 1

\* C37: collision_side returns None only if the mover's adjusted previous
\* rectangle overlaps the obstacle's current rectangle on both axes;
\* whenever the two are disjoint or merely touching it returns exactly one
\* of Top, Bottom, Left, Right, never None and never a combination of side
\* flags.
C37_NoneOnlyIfOverlapping ==
    cout # Idle =>
        /\ cout.side = COLLISIONSIDE_NONE =>
              /\ MoverPrev.x < cin.o.rect.x + cin.o.rect.w
              /\ cin.o.rect.x < MoverPrev.x + MoverPrev.w
              /\ MoverPrev.y < cin.o.rect.y + cin.o.rect.h
              /\ cin.o.rect.y < MoverPrev.y + MoverPrev.h
        /\ ~colliderect(MoverPrev, cin.o.rect) =>
              cout.side \in {COLLISIONSIDE_TOP, COLLISIONSIDE_BOTTOM,
                             COLLISIONSIDE_LEFT, COLLISIONSIDE_RIGHT}

\* the mover's adjusted previous rectangle touched the obstacle's bottom
\* edge from below, inside its width, with the obstacle moving: Bottom
C37_Witness ==
    /\ cout # Idle
    /\ MoverPrev.y = cin.o.rect.y + cin.o.rect.h
    /\ ~WasLeft /\ ~WasRight
    /\ ObstacleShift = <<1, 1>>
    /\ RelativeVelocity[2] < 0
    /\ cout.side = COLLISIONSIDE_BOTTOM

\* the adjusted previous rectangle touched the obstacle at its top left
\* corner only: one side, not both
C37_WitnessCorner ==
    /\ cout # Idle
    /\ WasLeft /\ WasAbove /\ GapX = 0 /\ GapY = 0
    /\ RelativeVelocity = <<1, 1>>
    /\ cout.side \in {COLLISIONSIDE_TOP, COLLISIONSIDE_LEFT}

(***************************************************************************)
(* A ball's Move whose delta is changed between the updates: by the speed  *)
(* timer, by the slow capsule, by the reflection off an obstacle           *)
(***************************************************************************)
\* the ball, and what its Move has done so far: applied is the sum of the
\* displacements that the updates applied, in pixels, sum the sum of the
\* deltas in force at each update, in units of 1/Den
InitDrift ==
    /\ \E dx \in {-MaxDelta, -3, 1, 2}, dy \in {-MaxDelta, -2, 3, Den + 1} :
          ents = <<GameSprite(Rect(20, 20, 4, 4), Move(1, <<dx, dy>>), 0)>>
    /\ scen = [applied |-> <<0, 0>>, sum |-> <<0, 0>>, updates |-> 0, changes |-> <<>>]
    /\ cin = Idle /\ cout = Idle /\ cshift = Idle
    /\ proj = <<>> /\ obst = <<>> /\ gpc = Idle /\ hitlog = <<>>
    /\ paddle = Idle /\ events = Idle /\ timers = Idle /\ calls = <<>>

\* Sprite.update of the ball
DriftUpdate ==
    /\ scen.updates < MaxDriftFrames
    /\ ents' = <<SpriteUpdate(ents[1])>>
    /\ scen' = [scen EXCEPT
                  !.applied = <<@[1] + ents'[1].rect.x - ents[1].rect.x,
                                @[2] + ents'[1].rect.y - ents[1].rect.y>>,
                  !.sum = <<@[1] + ents[1].action.delta[1], @[2] + ents[1].action.delta[2]>>,
                  !.updates = @ + 1]
    /\ UNCHANGED <<colVars, gameVars, sysVars>>

\* GameState.on_timer: ball.action.delta = [i * multiplier for i in delta],
\* and the slow capsule's division by the multiplier (here 2, on deltas that
\* stay multiples of 1/Den)
DriftSpeed ==
    /\ Len(scen.changes) < MaxDriftChanges
    /\ LET delta == ents[1].action.delta
       IN  \/ /\ ents' = [ents EXCEPT ![1].action.delta = <<2 * delta[1], 2 * delta[2]>>]
              /\ scen' = [scen EXCEPT !.changes = Append(@, "faster")]
           \/ /\ delta[1] % 2 = 0 /\ delta[2] % 2 = 0
              /\ ents' = [ents EXCEPT ![1].action.delta = <<delta[1] \div 2, delta[2] \div 2>>]
              /\ scen' = [scen EXCEPT !.changes = Append(@, "slower")]
    /\ UNCHANGED <<colVars, gameVars, sysVars>>

\* the reflection off an obstacle whose side has been resolved
DriftBounce ==
    /\ Len(scen.changes) < MaxDriftChanges
    /\ \E side \in {COLLISIONSIDE_TOP, COLLISIONSIDE_BOTTOM,
                    COLLISIONSIDE_LEFT, COLLISIONSIDE_RIGHT} :
          /\ ents' = <<Bounce(ents[1], [rect |-> Rect(22, 22, 8, 4)], side)>>
          /\ ents'[1].action.delta # ents[1].action.delta
    /\ scen' = [scen EXCEPT !.changes = Append(@, "bounce")]
    /\ UNCHANGED <<colVars, gameVars, sysVars>>

NextDrift == DriftUpdate \/ DriftSpeed \/ DriftBounce

SpecDrift == InitDrift /\ [][NextDrift]_vars

====
